---- MODULE Spec2Model ----
(***************************************************************************)
(* Lecture audio explorer: the upload -> transcription -> topic extraction *)
(* -> persisted view sequence of Index / LectureUploader /                 *)
(* TranscriptProcessor, and the dual-path playback controller              *)
(* AudioProcessor.                                                         *)
(*                                                                         *)
(* Strings the code inspects (MIME types, transcript text) are sequences   *)
(* of one-character strings, so includes / startsWith / trim are computed. *)
(* An optional JavaScript value is a set with no element (undefined) or    *)
(* one element.  Times are whole seconds.                                  *)
(***************************************************************************)
EXTENDS Integers, Sequences, FiniteSets, TLC

(***************************************************************************)
(* Bounds of the model.                                                    *)
(***************************************************************************)
\* number of files the user hands to the uploader in one behaviour
MaxUploads == 2
\* number of processAudio runs in one behaviour
MaxRuns == 2
\* number of loadAudio calls in one behaviour (overlapping in SpecAudio, one
\* after the other in SpecPlay)
MaxLoads == 2
\* number of playSegment calls in one behaviour of SpecPlay
MaxPlays == 2
\* number of playSegment calls in one behaviour of SpecAudio
MaxAudioPlays == 1

(***************************************************************************)
(* String helpers.                                                         *)
(***************************************************************************)
\* String.prototype.startsWith
StartsWith(s, pre) ==
  /\ Len(pre) <= Len(s)
  /\ SubSeq(s, 1, Len(pre)) = pre

\* String.prototype.includes
Includes(s, sub) ==
  \E i \in 0..(Len(s) - Len(sub)) : SubSeq(s, i + 1, i + Len(sub)) = sub

IsSpace(c) == c \in {" ", "\t", "\n"}

\* String.prototype.trim
Trim(s) ==
  LET idx == {i \in 1..Len(s) : ~IsSpace(s[i])}
  IN  IF idx = {} THEN <<>>
      ELSE LET lo == CHOOSE i \in idx : \A j \in idx : i <= j
               hi == CHOOSE i \in idx : \A j \in idx : i >= j
           IN  SubSeq(s, lo, hi)

\* a || b for an optional string: undefined and '' are falsy
OrStr(opt, dflt) ==
  IF opt = {} THEN dflt
  ELSE LET v == CHOOSE x \in opt : TRUE IN IF v = <<>> THEN dflt ELSE v

\* a || b for an optional array: only undefined is falsy (an empty array is truthy)
OrArr(opt, dflt) ==
  IF opt = {} THEN dflt ELSE CHOOSE x \in opt : TRUE

AUDIO == <<"a", "u", "d", "i", "o">>
AUDIO_SLASH == <<"a", "u", "d", "i", "o", "/">>
MOCK_TRANSCRIPT ==
  <<"m", "o", "c", "k", " ", "t", "r", "a", "n", "s", "c", "r", "i", "p", "t">>

\* the texts of topics: titles and descriptions, character by character
T_Intro ==
  <<"I", "n", "t", "r", "o">>
T_First ==
  <<"f", "i", "r", "s", "t">>
T_Body ==
  <<"B", "o", "d", "y">>
T_Late ==
  <<"L", "a", "t", "e">>
T_X ==
  <<"x">>
T_D ==
  <<"d">>
T_IntroA ==
  <<"I", "n", "t", "r", "o", " ", "a">>
T_IntroB ==
  <<"i", "n", "t", "r", "o", " ", "b">>
T_Lead ==
  <<" ", "l", "e", "a", "d">>
T_Basics ==
  <<"t", "h", "e", " ", "b", "a", "s", "i", "c", "s">>
T_Topic ==
  <<"T", "o", "p", "i", "c", " ">>
T_NoDescription ==
  <<"N", "o", " ", "d", "e", "s", "c", "r", "i", "p", "t", "i", "o", "n",
    " ", "a", "v", "a", "i", "l", "a", "b", "l", "e">>
T_Introduction ==
  <<"I", "n", "t", "r", "o", "d", "u", "c", "t", "i", "o", "n">>
T_OverviewLecture ==
  <<"O", "v", "e", "r", "v", "i", "e", "w", " ", "o", "f", " ", "t", "h",
    "e", " ", "l", "e", "c", "t", "u", "r", "e", " ", "c", "o", "n", "t",
    "e", "n", "t">>
T_MainConcepts ==
  <<"M", "a", "i", "n", " ", "C", "o", "n", "c", "e", "p", "t", "s">>
T_KeyTheory ==
  <<"D", "i", "s", "c", "u", "s", "s", "i", "o", "n", " ", "o", "f", " ",
    "k", "e", "y", " ", "t", "h", "e", "o", "r", "e", "t", "i", "c", "a",
    "l", " ", "c", "o", "n", "c", "e", "p", "t", "s">>
T_PracticalApplications ==
  <<"P", "r", "a", "c", "t", "i", "c", "a", "l", " ", "A", "p", "p", "l",
    "i", "c", "a", "t", "i", "o", "n", "s">>
T_RealWorld ==
  <<"R", "e", "a", "l", "-", "w", "o", "r", "l", "d", " ", "a", "p", "p",
    "l", "i", "c", "a", "t", "i", "o", "n", "s", " ", "o", "f", " ", "t",
    "h", "e", " ", "m", "a", "t", "e", "r", "i", "a", "l">>
T_IntroductionSubject ==
  <<"I", "n", "t", "r", "o", "d", "u", "c", "t", "i", "o", "n", " ", "t",
    "o", " ", "t", "h", "e", " ", "S", "u", "b", "j", "e", "c", "t">>
T_OverviewCourse ==
  <<"O", "v", "e", "r", "v", "i", "e", "w", " ", "o", "f", " ", "t", "h",
    "e", " ", "c", "o", "u", "r", "s", "e", " ", "c", "o", "n", "t", "e",
    "n", "t", " ", "a", "n", "d", " ", "l", "e", "a", "r", "n", "i", "n",
    "g", " ", "o", "b", "j", "e", "c", "t", "i", "v", "e", "s", ".">>
T_KeyConcepts ==
  <<"K", "e", "y", " ", "C", "o", "n", "c", "e", "p", "t", "s">>
T_Fundamental ==
  <<"E", "x", "p", "l", "a", "n", "a", "t", "i", "o", "n", " ", "o", "f",
    " ", "f", "u", "n", "d", "a", "m", "e", "n", "t", "a", "l", " ", "t",
    "h", "e", "o", "r", "i", "e", "s", " ", "a", "n", "d", " ", "p", "r",
    "i", "n", "c", "i", "p", "l", "e", "s", ".">>
T_CaseStudies ==
  <<"R", "e", "a", "l", "-", "w", "o", "r", "l", "d", " ", "e", "x", "a",
    "m", "p", "l", "e", "s", " ", "a", "n", "d", " ", "c", "a", "s", "e",
    " ", "s", "t", "u", "d", "i", "e", "s", " ", "o", "f", " ", "t", "h",
    "e", " ", "c", "o", "n", "c", "e", "p", "t", "s", " ", "i", "n", " ",
    "a", "c", "t", "i", "o", "n", ".">>

\* Number.prototype.toString for a natural number, character by character
DIGITS == <<"0", "1", "2", "3", "4", "5", "6", "7", "8", "9">>
RECURSIVE NumChars(_)
NumChars(n) ==
  IF n < 10 THEN <<DIGITS[n + 1]>> ELSE NumChars(n \div 10) \o <<DIGITS[(n % 10) + 1]>>

(***************************************************************************)
(* The files the user can pick: File objects with a MIME type and a size.  *)
(***************************************************************************)
\* LectureUploader's size limit, 100 * 1024 * 1024
MAX_UPLOAD_SIZE == 104857600

TypeMpeg == <<"a", "u", "d", "i", "o", "/", "m", "p", "3">>
TypeText == <<"t", "e", "x", "t", "/", "x">>
\* a type that contains 'audio' without starting with 'audio/'
TypeVnd == <<"a", "p", "p", "/", "x", "-", "a", "u", "d", "i", "o">>

Files ==
  { [name |-> "a.mp3", type |-> TypeMpeg, size |-> 1],
    [name |-> "b.mp3", type |-> TypeMpeg, size |-> MAX_UPLOAD_SIZE],
    [name |-> "c.mp3", type |-> TypeMpeg, size |-> MAX_UPLOAD_SIZE + 1],
    [name |-> "d.txt", type |-> TypeText, size |-> 1],
    [name |-> "e.aep", type |-> TypeVnd, size |-> 1] }

NoFile == [name |-> "", type |-> <<>>, size |-> 0]
\* Index.currentFile === null
NoAudioFile == [name |-> "", size |-> 0, type |-> <<>>, url |-> 0, file |-> NoFile]

(***************************************************************************)
(* Responses of the remote service, as the code sees them.                 *)
(***************************************************************************)
Seg(i, s, e) == [id |-> i, start |-> s, end |-> e, text |-> "seg"]

SegLists ==
  { <<>>,
    <<Seg(0, 0, 30)>>,
    <<Seg(0, 0, 30), Seg(1, 30, 100), Seg(2, 200, 250)>> }

Texts == { <<>>, <<" ">>, <<"h", "i">>, <<" ", "h", "i">>, MOCK_TRANSCRIPT }

\* what POST /transcribe/ can come back with
TranscribeResponses ==
  { [kind |-> "neterr", text |-> {}, segments |-> {}, quota |-> FALSE],
    [kind |-> "http", text |-> {}, segments |-> {}, quota |-> FALSE],
    [kind |-> "badjson", text |-> {}, segments |-> {}, quota |-> FALSE] }
  \cup
  [kind : {"ok"},
   text : {{}} \cup {{t} : t \in Texts},
   segments : {{}} \cup {{l} : l \in SegLists},
   quota : BOOLEAN]

\* an element of data.topics; nil is a null element
RawTopic(t, ti, d, s, e) ==
  [nil |-> FALSE, topic |-> t, title |-> ti, description |-> d, start |-> s, end |-> e]

NullTopic == [nil |-> TRUE, topic |-> {}, title |-> {}, description |-> {},
              start |-> {}, end |-> {}]

RawTopicLists ==
  { <<>>,
    <<RawTopic({T_Intro}, {}, {T_First}, {0}, {30})>>,
    <<RawTopic({}, {T_Body}, {}, {}, {100}), RawTopic({}, {}, {<<>>}, {40}, {})>>,
    <<RawTopic({T_Late}, {T_X}, {T_D}, {150}, {260}), NullTopic>>,
    <<RawTopic({T_IntroA}, {}, {T_Basics}, {0}, {30}),
      RawTopic({T_Body}, {}, {T_D}, {30}, {100}),
      RawTopic({T_IntroB}, {}, {T_D}, {100}, {200}),
      RawTopic({T_Lead}, {}, {}, {200}, {250})>> }

\* what POST /extract-topics/ can come back with: the fetch or res.json()
\* rejects, or data.topics is falsy, an array, or a truthy value that is no array
TopicResponses ==
  { [kind |-> "neterr", items |-> <<>>],
    [kind |-> "badjson", items |-> <<>>],
    [kind |-> "missing", items |-> <<>>],
    [kind |-> "other", items |-> <<>>] }
  \cup
  [kind : {"array"}, items : RawTopicLists]

(***************************************************************************)
(* TranscriptProcessor.tsx: the two request helpers.                       *)
(***************************************************************************)
\* uploadAndTranscribe without its `if (!response.ok) throw`
uploadAndTranscribe_NoStatusCheck(resp) ==
  IF resp.kind \in {"neterr", "badjson"}
  THEN [ok |-> FALSE, text |-> <<>>, segments |-> <<>>, quota_exceeded |-> FALSE]
  ELSE [ok |-> TRUE,
        text |-> OrStr(resp.text, <<>>),
        segments |-> OrArr(resp.segments, <<>>),
        quota_exceeded |-> resp.quota]

uploadAndTranscribe(resp) ==
  IF resp.kind # "ok"
  THEN [ok |-> FALSE, text |-> <<>>, segments |-> <<>>, quota_exceeded |-> FALSE]
  ELSE [ok |-> TRUE,
        text |-> OrStr(resp.text, <<>>),
        segments |-> OrArr(resp.segments, <<>>),
        quota_exceeded |-> resp.quota]

\* the fallback list of extractTopics
EXTRACT_MOCK ==
  << RawTopic({T_Introduction}, {}, {T_OverviewLecture}, {0}, {60}),
     RawTopic({T_MainConcepts}, {}, {T_KeyTheory}, {61}, {180}),
     RawTopic({T_PracticalApplications}, {}, {T_RealWorld}, {181}, {300}) >>

\* extractTopics whose catch returns no topics instead of the fallback list
extractTopics_NoFallback(transcript, resp) ==
  IF transcript = <<>> THEN [kind |-> "array", items |-> <<>>]
  ELSE IF resp.kind \in {"neterr", "badjson", "missing"}
       THEN [kind |-> "array", items |-> <<>>]
       ELSE resp

\* extractTopics is only called with a non-empty transcript (the caller throws
\* first), so its `if (!transcript) return []` is kept for the empty string alone
extractTopics(transcript, resp) ==
  IF transcript = <<>> THEN [kind |-> "array", items |-> <<>>]
  ELSE IF resp.kind \in {"neterr", "badjson", "missing"}
       THEN [kind |-> "array", items |-> EXTRACT_MOCK]
       ELSE resp

(***************************************************************************)
(* TranscriptProcessor.processAudio: formatting and the fallback record.   *)
(***************************************************************************)
\* a || b for an optional title or description: undefined and '' are falsy
OrName(opt, dflt) ==
  IF opt = {} THEN dflt
  ELSE LET v == CHOOSE x \in opt : TRUE IN IF Len(v) = 0 THEN dflt ELSE v

\* typeof x === 'number' ? x : 0
NumOrZero(opt) == IF opt = {} THEN 0 ELSE CHOOSE x \in opt : TRUE

\* the segment's position in the list (from 1) returned instead of its index
TopicSegments_FromOne(segs, topicStart, topicEnd) ==
  SelectSeq([i \in 1..Len(segs) |-> i],
            LAMBDA k : segs[k].end >= topicStart /\ segs[k].start <= topicEnd)

\* indices (from 0) of the segments that overlap [topicStart, topicEnd]
TopicSegments(segs, topicStart, topicEnd) ==
  SelectSeq([i \in 1..Len(segs) |-> i - 1],
            LAMBDA k : segs[k + 1].end >= topicStart /\ segs[k + 1].start <= topicEnd)

FormatTopic(topic, index, segs) ==
  LET topicStart == NumOrZero(topic.start)
      topicEnd == NumOrZero(topic.end)
  IN  [id |-> ToString(index),
       title |-> OrName(topic.topic, OrName(topic.title, T_Topic \o NumChars(index + 1))),
       description |-> OrName(topic.description, T_NoDescription),
       start |-> topicStart,
       end |-> topicEnd,
       segments |-> TopicSegments(segs, topicStart, topicEnd)]

\* extractedTopics.map(...) throws for a value that is no array and for a null element
FormatThrows(extracted) ==
  \/ extracted.kind # "array"
  \/ \E i \in 1..Len(extracted.items) : extracted.items[i].nil

FormatTopics(items, segs) ==
  [i \in 1..Len(items) |-> FormatTopic(items[i], i - 1, segs)]

MockTopic(i, t, d, s, e) ==
  [id |-> i, title |-> t, description |-> d, start |-> s, end |-> e, segments |-> <<>>]

\* the fallback list of processAudio's catch block
MOCK_TOPICS ==
  << MockTopic("1", T_IntroductionSubject, T_OverviewCourse, 0, 180),
     MockTopic("2", T_KeyConcepts, T_Fundamental, 210, 450),
     MockTopic("3", T_PracticalApplications, T_CaseStudies, 480, 720) >>

\* the topics one run ends with, given the transcription result and, when a
\* topic request was made, its response
RunTopics(result, extracted) ==
  IF FormatThrows(extracted) THEN MOCK_TOPICS
  ELSE FormatTopics(extracted.items, result.segments)

\* the object handed to setTranscriptData
TranscriptData(result, tps) ==
  [transcript |-> [text |-> result.text, segments |-> result.segments],
   topics |-> tps]

(***************************************************************************)
(* Browser key-value storage: a set of (key, item) pairs, one per key.     *)
(* Every stored value derives from parsed JSON (numbers, strings, arrays,  *)
(* objects), so stringify and parse keep its content.                      *)
(***************************************************************************)
\* the key TranscriptProcessor writes
PROCESSOR_KEY == "lectureTranscript"
\* TopicNavigator reading another key than the one written
NAVIGATOR_KEY_Other == "transcriptData"

\* the key TopicNavigator reads
NAVIGATOR_KEY == "lectureTranscript"

JSONStringify(v) == [json |-> v]
JSONParse(s) == s.json

\* useLocalStorage(key).setValue(v): localStorage.setItem(key, JSON.stringify(v))
SetItem(store, key, v) ==
  {p \in store : p.key # key} \cup {[key |-> key, item |-> JSONStringify(v)]}

\* useLocalStorage(key, null) value: the parsed item, or null ({}) without one
GetItem(store, key) == {JSONParse(p.item) : p \in {q \in store : q.key = key}}

(***************************************************************************)
(* State.                                                                  *)
(***************************************************************************)
VARIABLES
  \* Index page
  currentFile,      \* AudioFile or NoAudioFile
  idxIsProcessing,
  isProcessed,
  showTopics,
  \* LectureUploader
  upIsProcessing,
  urlCount,         \* object URLs created so far
  lastUpload,       \* what the last processFile call did
  \* TranscriptProcessor component state
  tpIsProcessing,
  transcript,
  segments,
  topics,
  \* the processAudio call in flight
  pc,               \* "idle", "transcribing", "extracting"
  runFile,          \* the audioFile the call closed over
  runResult,        \* transcriptResult
  runs,             \* processAudio calls that started a request so far
  runLog,           \* what the current or last call did, in order
  transcribeResp,   \* what the call's transcription request came back with
  topicResp,        \* what the call's topic request came back with
  \* browser storage and the mounted TopicNavigator
  storage,
  navData,          \* TopicNavigator.transcriptData
  \* AudioProcessor fields (null is the empty set)
  apIsLoaded,
  apLoadError,
  apAudioBuffer,    \* {} or {[file, duration]}
  apSourceNode,     \* {} or {the AudioBufferSourceNode}
  apObjectUrl,
  apUrls,           \* object URLs created by loadAudio so far
  apRevoked,        \* object URLs revoked so far
  \* the HTMLAudioElement
  elSrc,            \* {} or {[url, file]}
  elState,          \* "empty", "loading", "ready", "error"
  elPaused,
  elCurrentTime,
  elPlayedFor,      \* seconds played since play() was last called
  elListeners,      \* loadAudio calls whose canplaythrough/error listeners are attached
  \* the loadAudio and playSegment calls made so far
  loads,            \* the loadAudio calls in flight and the last settled ones
  plays,            \* the playSegment calls in flight and the last settled ones
  playCount,        \* playSegment calls so far; the id of the last one
  playArgs,         \* the arguments of the last playSegment call
  \* TopicNavigator component state
  navPc,            \* "unmounted", "mounting" (rendered, effects not yet run), "mounted"
  searchQuery,
  selectedTopic,    \* {} or {the topic}
  isPlaying,
  audioLoaded,
  audioLoadError,   \* {} or {the message}
  navToast,         \* the title of the last toast the navigator showed, "" for none
  navCall,          \* the last handler of the navigator that ran, and its topic
  navLoadAwait,     \* the loadAudio calls the load effect is waiting for
  navPlayAwait,     \* the playSegment calls a handler is waiting for
  \* useLecture hook
  lecture,          \* the LectureState
  lectureCalls,     \* the handleFileUpload calls in flight and the last settled ones
  lectureCount,     \* handleFileUpload calls so far
  \* the last call of a helper function and what it returned
  fnCall

idxVars == <<currentFile, idxIsProcessing, isProcessed, showTopics>>
upVars == <<upIsProcessing, urlCount, lastUpload>>
tpVars == <<tpIsProcessing, transcript, segments, topics>>
runVars == <<pc, runFile, runResult, runs, runLog, transcribeResp, topicResp>>
procVars == <<idxVars, upVars, tpVars, runVars, storage, navData>>

apVars == <<apIsLoaded, apLoadError, apAudioBuffer, apSourceNode, apObjectUrl, apUrls,
           apRevoked>>
elVars == <<elSrc, elState, elPaused, elCurrentTime, elPlayedFor, elListeners>>
audioVars == <<apVars, elVars, loads, plays, playCount, playArgs>>
fnVars == <<fnCall>>

navVars == <<navPc, searchQuery, selectedTopic, isPlaying, audioLoaded, audioLoadError,
            navToast, navCall, navLoadAwait, navPlayAwait>>
lectVars == <<lecture, lectureCalls, lectureCount>>
\* what neither the upload sequence nor the AudioProcessor touches
restVars == <<navVars, lectVars, fnVars>>

\* what the AudioProcessor does not touch
nonAudioVars == <<procVars, restVars>>

vars == <<procVars, audioVars, navVars, lectVars, fnVars>>

NoResult == [ok |-> FALSE, text |-> <<>>, segments |-> <<>>, quota_exceeded |-> FALSE]
NoUpload == [file |-> NoFile, selected |-> <<>>, toast |-> "", urlsBefore |-> 0]

InitProc ==
  /\ currentFile = NoAudioFile
  /\ idxIsProcessing = FALSE
  /\ isProcessed = FALSE
  /\ showTopics = FALSE
  /\ upIsProcessing = FALSE
  /\ urlCount = 0
  /\ lastUpload = NoUpload
  /\ tpIsProcessing = FALSE
  /\ transcript = <<>>
  /\ segments = <<>>
  /\ topics = <<>>
  /\ pc = "idle"
  /\ runFile = NoAudioFile
  /\ runResult = NoResult
  /\ runs = 0
  /\ runLog = <<>>
  /\ transcribeResp = {}
  /\ topicResp = {}
  /\ storage = {}
  /\ navData = {}

\* no playSegment call yet
NoArgs == [start |-> [type |-> "undefined", nan |-> FALSE, v |-> 0], duration |-> 0]

\* the AudioProcessor after its constructor
InitAudio ==
  /\ apIsLoaded = FALSE
  /\ apLoadError = {}
  /\ apAudioBuffer = {}
  /\ apSourceNode = {}
  /\ apObjectUrl = {}
  /\ apUrls = 0
  /\ apRevoked = {}
  /\ elSrc = {}
  /\ elState = "empty"
  /\ elPaused = TRUE
  /\ elCurrentTime = 0
  /\ elPlayedFor = 0
  /\ elListeners = {}
  /\ loads = {}
  /\ plays = {}
  /\ playCount = 0
  /\ playArgs = NoArgs

NoTopicCall == [op |-> "none", topic |-> {}]

\* TopicNavigator is not mounted
InitNav ==
  /\ navPc = "unmounted"
  /\ searchQuery = <<>>
  /\ selectedTopic = {}
  /\ isPlaying = FALSE
  /\ audioLoaded = FALSE
  /\ audioLoadError = {}
  /\ navToast = ""
  /\ navCall = NoTopicCall
  /\ navLoadAwait = {}
  /\ navPlayAwait = {}

\* useLecture's initial LectureState (the fields the upload handler sets)
NoLecture ==
  [file |-> NoFile, isProcessing |-> FALSE, error |-> {}, transcription |-> <<>>,
   topics |-> <<>>, audioProcessor |-> FALSE]

InitLecture ==
  /\ lecture = NoLecture
  /\ lectureCalls = {}
  /\ lectureCount = 0

NoCall == [fn |-> "none"]
InitFn == fnCall = NoCall

Init == InitProc /\ InitAudio /\ InitNav /\ InitLecture /\ InitFn

(***************************************************************************)
(* What Index renders.                                                     *)
(***************************************************************************)
UploaderShown == currentFile = NoAudioFile \/ ~isProcessed
ProcessorMounted == currentFile # NoAudioFile /\ ~isProcessed
ReadyPromptShown == currentFile # NoAudioFile /\ isProcessed /\ ~showTopics
NavigatorMounted == currentFile # NoAudioFile /\ isProcessed /\ showTopics

(***************************************************************************)
(* LectureUploader.processFile                                             *)
(***************************************************************************)
\* processFile rejecting a file of exactly the size limit (>= for >)
processFile_SizeOffByOne(file, n, busy) ==
  IF ~Includes(file.type, AUDIO)
  THEN [selected |-> <<>>, toast |-> "Invalid File Type", urls |-> n, busy |-> busy]
  ELSE IF file.size >= MAX_UPLOAD_SIZE
  THEN [selected |-> <<>>, toast |-> "File Too Large", urls |-> n, busy |-> busy]
  ELSE LET url == n + 1
           audioFile == [name |-> file.name, size |-> file.size, type |-> file.type,
                         url |-> url, file |-> file]
       IN  [selected |-> <<audioFile>>, toast |-> "", urls |-> url, busy |-> FALSE]

\* the outcome of processFile(file) with n object URLs created before and
\* isProcessing = busy: the AudioFiles passed to onFileSelected, the toast, the
\* URLs created, and isProcessing when it returns
processFile(file, n, busy) ==
  IF ~Includes(file.type, AUDIO)
  THEN [selected |-> <<>>, toast |-> "Invalid File Type", urls |-> n, busy |-> busy]
  ELSE IF file.size > MAX_UPLOAD_SIZE
  THEN [selected |-> <<>>, toast |-> "File Too Large", urls |-> n, busy |-> busy]
  ELSE LET url == n + 1                       \* URL.createObjectURL(file)
           audioFile == [name |-> file.name, size |-> file.size, type |-> file.type,
                         url |-> url, file |-> file]
       IN  [selected |-> <<audioFile>>, toast |-> "", urls |-> url,
            busy |-> FALSE]                   \* finally: setIsProcessing(false)

\* a drop or a file pick on the uploader Index shows; an accepted file goes to
\* Index.handleFileSelected, and the TranscriptProcessor effect on audioFile
\* resets its transcript state
UploadFile(file) ==
  /\ UploaderShown
  /\ urlCount < MaxUploads
  /\ LET out == processFile(file, urlCount, upIsProcessing) IN
       /\ upIsProcessing' = out.busy
       /\ urlCount' = out.urls
       /\ lastUpload' = [file |-> file, selected |-> out.selected, toast |-> out.toast,
                         urlsBefore |-> urlCount]
       /\ IF out.selected = <<>>
          THEN UNCHANGED <<idxVars, tpVars>>
          ELSE /\ currentFile' = out.selected[1]
               /\ isProcessed' = FALSE
               /\ showTopics' = FALSE
               /\ UNCHANGED idxIsProcessing
               /\ transcript' = <<>>
               /\ segments' = <<>>
               /\ topics' = <<>>
               /\ UNCHANGED tpIsProcessing
  /\ UNCHANGED <<runVars, storage, navData, audioVars, restVars>>

(***************************************************************************)
(* TranscriptProcessor.processAudio, one action per stretch between awaits *)
(***************************************************************************)
\* !text || text.trim().length === 0
BlankText(text) == text = <<>> \/ Len(Trim(text)) = 0

\* the toast after a successful transcription
TranscriptionToast(result) ==
  IF Includes(result.text, MOCK_TRANSCRIPT) \/ result.quota_exceeded
  THEN "toast:destructive:API Key Issue"
  ELSE "toast:default:Using Real Transcription"

\* from setTopics to onProcessingComplete: the record is saved, isProcessing is
\* cleared and Index.handleProcessingComplete runs
FinishRun(result, tps, events) ==
  /\ topics' = tps
  /\ storage' = SetItem(storage, PROCESSOR_KEY, TranscriptData(result, tps))
  /\ tpIsProcessing' = FALSE
  /\ idxIsProcessing' = FALSE
  /\ isProcessed' = TRUE
  /\ pc' = "idle"
  /\ runLog' = runLog \o events \o <<"write", "onProcessingComplete">>

\* the click on "Process Audio" up to the first await
ProcessAudio ==
  /\ ProcessorMounted
  /\ ~tpIsProcessing
  /\ runs < MaxRuns
  /\ runs' = runs + 1
  /\ transcribeResp' = {}
  /\ topicResp' = {}
  /\ IF currentFile.file = NoFile
     THEN /\ runLog' = <<"toast:destructive:No File Selected">>
          /\ UNCHANGED <<tpIsProcessing, idxIsProcessing, pc, runFile>>
     ELSE IF ~StartsWith(currentFile.file.type, AUDIO_SLASH)
     THEN /\ runLog' = <<"toast:destructive:Invalid File">>
          /\ UNCHANGED <<tpIsProcessing, idxIsProcessing, pc, runFile>>
     ELSE /\ tpIsProcessing' = TRUE
          /\ idxIsProcessing' = TRUE
          /\ runFile' = currentFile
          /\ pc' = "transcribing"
          /\ runLog' = <<"onProcessingStart", "transcribeRequest">>
  /\ UNCHANGED <<currentFile, isProcessed, showTopics, upVars, transcript, segments,
                 topics, runResult, storage, navData, audioVars, restVars>>

\* the catch around uploadAndTranscribe, without its setIsProcessing(false)
TranscribeFailed_StillProcessing ==
  /\ runLog' = runLog \o <<"transcribeFailed", "toast:destructive:Processing Failed">>
  /\ pc' = "idle"
  /\ UNCHANGED <<tpIsProcessing, runResult, transcript, segments, topics, storage,
                 idxIsProcessing, isProcessed>>

\* the catch around uploadAndTranscribe issuing the request again
TranscribeFailed_Retry ==
  /\ runLog' = runLog \o <<"transcribeFailed", "transcribeRequest">>
  /\ pc' = "transcribing"
  /\ UNCHANGED <<tpIsProcessing, runResult, transcript, segments, topics, storage,
                 idxIsProcessing, isProcessed>>

\* the catch around uploadAndTranscribe: toast, isProcessing cleared, return
TranscribeFailed ==
  /\ runLog' = runLog \o <<"transcribeFailed", "toast:destructive:Processing Failed">>
  /\ tpIsProcessing' = FALSE
  /\ pc' = "idle"
  /\ UNCHANGED <<runResult, transcript, segments, topics, storage,
                 idxIsProcessing, isProcessed>>

\* uploadAndTranscribe settles: the failure path, the blank-transcript path
\* (no topic request) or the topic request
TranscribeReturn(resp) ==
  /\ pc = "transcribing"
  /\ transcribeResp' = {resp}
  /\ LET result == uploadAndTranscribe(resp) IN
       IF ~result.ok
       THEN TranscribeFailed
       ELSE /\ runResult' = result
            /\ transcript' = result.text
            /\ segments' = result.segments
            /\ IF BlankText(result.text)
               THEN FinishRun(result, MOCK_TOPICS,
                              <<"transcribeOk", TranscriptionToast(result),
                                "toast:default:Topic Extraction Issue">>)
               ELSE /\ pc' = "extracting"
                    /\ runLog' = runLog \o <<"transcribeOk", TranscriptionToast(result),
                                             "topicRequest">>
                    /\ UNCHANGED <<topics, storage, tpIsProcessing, idxIsProcessing,
                                   isProcessed>>
  /\ UNCHANGED <<currentFile, showTopics, upVars, runFile, runs, topicResp, navData,
                 audioVars, restVars>>

\* extractTopics settles: the topics are formatted (or replaced), saved, and the
\* run completes
TopicsReturn(resp) ==
  /\ pc = "extracting"
  /\ topicResp' = {resp}
  /\ LET extracted == extractTopics(runResult.text, resp) IN
       FinishRun(runResult, RunTopics(runResult, extracted),
                 IF FormatThrows(extracted)
                 THEN <<"topicsReturned", "toast:default:Topic Extraction Issue">>
                 ELSE <<"topicsReturned">>)
  /\ UNCHANGED <<currentFile, showTopics, upVars, transcript, segments, runFile,
                 runResult, runs, transcribeResp, navData, audioVars, restVars>>

(***************************************************************************)
(* Index: the "Go to Topics" button and TopicNavigator's onReset           *)
(***************************************************************************)
\* TopicNavigator mounts and reads its transcriptData from storage
GoToTopics ==
  /\ ReadyPromptShown
  /\ showTopics' = TRUE
  /\ navData' = GetItem(storage, NAVIGATOR_KEY)
  /\ UNCHANGED <<currentFile, idxIsProcessing, isProcessed, upVars, tpVars, runVars,
                 storage, audioVars, restVars>>

\* Index's onReset for the navigator: the navigator unmounts
onReset ==
  /\ currentFile' = NoAudioFile
  /\ isProcessed' = FALSE
  /\ showTopics' = FALSE
  /\ navData' = {}
  /\ UNCHANGED <<idxIsProcessing, upVars, tpVars, runVars, storage>>

NavigatorReset ==
  /\ NavigatorMounted
  /\ onReset
  /\ UNCHANGED <<audioVars, restVars>>

NextProc ==
  \/ \E file \in Files : UploadFile(file)
  \/ ProcessAudio
  \/ \E resp \in TranscribeResponses : TranscribeReturn(resp)
  \/ \E resp \in TopicResponses : TopicsReturn(resp)
  \/ GoToTopics
  \/ NavigatorReset

SpecProc == Init /\ [][NextProc]_vars

Spec == SpecProc

(***************************************************************************)
(* Properties of the upload and processing sequence (SpecProc).            *)
(***************************************************************************)
Last(q) == q[Len(q)]
Occurs(e) == \E i \in 1..Len(runLog) : runLog[i] = e
Before(a, b) ==
  \E i \in 1..Len(runLog) : \E j \in 1..Len(runLog) :
    i < j /\ runLog[i] = a /\ runLog[j] = b

\* the transcription request of the current call came back, successfully
TranscriptionSucceeded == \E r \in transcribeResp : r.kind = "ok"
\* what that request returned, as uploadAndTranscribe hands it on
ReturnedText == OrStr((CHOOSE r \in transcribeResp : TRUE).text, <<>>)
ReturnedSegments == OrArr((CHOOSE r \in transcribeResp : TRUE).segments, <<>>)

RunCompleted == runLog # <<>> /\ Last(runLog) = "onProcessingComplete"
StoredRecords == GetItem(storage, PROCESSOR_KEY)

Milestones ==
  <<"onProcessingStart", "transcribeRequest", "transcribeOk", "topicRequest", "write",
    "onProcessingComplete">>

\* C1: the steps of a processAudio call happen in the order onProcessingStart,
\* transcription request, topic request, write of the record, onProcessingComplete:
\* each happens at most once and never before an earlier one of the list; a step
\* that happens has all earlier ones before it (the topic request alone may be
\* skipped); the topic request and the write happen only after the transcription
\* request has returned successfully.
C1_StepOrder ==
  /\ \A i \in 1..Len(runLog) : \A j \in 1..Len(runLog) :
       \A a \in 1..Len(Milestones) : \A b \in 1..Len(Milestones) :
         (i < j /\ runLog[i] = Milestones[a] /\ runLog[j] = Milestones[b]) => a < b
  /\ \A b \in 2..Len(Milestones) :
       Occurs(Milestones[b]) =>
         \A a \in 1..(b - 1) :
           Milestones[a] # "topicRequest" => Before(Milestones[a], Milestones[b])
  /\ Occurs("topicRequest") => TranscriptionSucceeded
  /\ Occurs("write") => TranscriptionSucceeded
  /\ pc = "extracting" => TranscriptionSucceeded
  /\ (pc = "transcribing") = (transcribeResp = {} /\ Occurs("transcribeRequest"))

\* a run went through all five steps, on its second attempt after a failed one
C1_Witness ==
  /\ runs = 2
  /\ RunCompleted
  /\ Occurs("topicRequest")
  /\ StoredRecords # {}

\* the fixed part of a topic: everything but its id and segment indices
TopicCore(t) ==
  [title |-> t.title, description |-> t.description, start |-> t.start, end |-> t.end]
TopicCores(tps) == [i \in 1..Len(tps) |-> TopicCore(tps[i])]

\* the two fallback lists, as they are stored
FALLBACK_CORES ==
  { TopicCores(MOCK_TOPICS),
    << [title |-> T_Introduction, description |-> T_OverviewLecture,
        start |-> 0, end |-> 60],
       [title |-> T_MainConcepts, description |-> T_KeyTheory,
        start |-> 61, end |-> 180],
       [title |-> T_PracticalApplications, description |-> T_RealWorld,
        start |-> 181, end |-> 300] >> }

\* transcription succeeded and topic extraction failed: the text is empty or
\* whitespace, the request erred, or the response has no topics field
TopicExtractionFailed ==
  /\ TranscriptionSucceeded
  /\ \/ ReturnedText = <<>>
     \/ \A i \in 1..Len(ReturnedText) : ReturnedText[i] = " "
     \/ \E r \in topicResp : r.kind \in {"neterr", "badjson", "missing"}

C3_TranscriptionFailure ==
  [][ (pc = "transcribing" /\ pc' # "transcribing"
       /\ \E r \in transcribeResp' : r.kind \in {"neterr", "http"})
      => /\ Last(runLog') = "toast:destructive:Processing Failed"
         /\ tpIsProcessing' = FALSE
         /\ pc' = "idle"
         /\ storage' = storage
         /\ <<transcript', segments', topics'>> = <<transcript, segments, topics>>
         /\ isProcessed' = isProcessed
         /\ \A i \in 1..Len(runLog') :
              runLog'[i] \notin {"topicRequest", "write", "onProcessingComplete"} ]_vars

\* a transcription request failed with a record of an earlier run in storage
C3_Witness ==
  /\ \E r \in transcribeResp : r.kind = "http"
  /\ runLog # <<>> /\ Last(runLog) = "toast:destructive:Processing Failed"
  /\ StoredRecords # {}
  /\ ~tpIsProcessing

\* C4: when onProcessingComplete has been invoked the storage key holds the
\* record written by that call: the transcript text and segments its
\* transcription request returned and the topics the call set; the mounted
\* TopicNavigator has read that same item.
C4_RecordOfTheRun ==
  /\ RunCompleted =>
       /\ Occurs("write")
       /\ TranscriptionSucceeded
       /\ \E rec \in StoredRecords :
            /\ rec.transcript.text = ReturnedText
            /\ rec.transcript.segments = ReturnedSegments
            /\ isProcessed => rec.topics = topics
  /\ NavigatorMounted => (navData = StoredRecords /\ navData # {})

\* the navigator is showing a record with formatted topics
C4_Witness ==
  /\ NavigatorMounted
  /\ RunCompleted
  /\ \E rec \in navData : Len(rec.topics) = 2 /\ rec.topics[1].title = T_Body

\* C5: processFile passes the file on (once, as name, size, type, a fresh object
\* URL and the File) exactly when its type contains 'audio' and its size is at most
\* 100 MB, and otherwise shows a toast and passes nothing on; isProcessing is
\* false when it returns.
C5_UploaderValidation ==
  lastUpload.file # NoFile =>
    LET f == lastUpload.file
        accepted == f.type \in {TypeMpeg, TypeVnd} /\ f.size <= 100 * 1024 * 1024
    IN  /\ accepted =>
              /\ lastUpload.selected =
                   << [name |-> f.name, size |-> f.size, type |-> f.type,
                       url |-> lastUpload.urlsBefore + 1, file |-> f] >>
              /\ lastUpload.toast = ""
        /\ ~accepted =>
              /\ lastUpload.selected = <<>>
              /\ lastUpload.toast \in {"Invalid File Type", "File Too Large"}
        /\ upIsProcessing = FALSE

\* a file of exactly 100 MB was accepted
C5_Witness ==
  /\ lastUpload.file.size = MAX_UPLOAD_SIZE
  /\ lastUpload.selected # <<>>
  /\ currentFile = lastUpload.selected[1]

\* the topic request of the current call returned a list that was formatted
FormattedRun ==
  /\ RunCompleted
  /\ \E r \in topicResp :
       r.kind = "array" /\ \A i \in 1..Len(r.items) : ~r.items[i].nil
\* the topics that request returned
ReturnedTopics == (CHOOSE r \in topicResp : TRUE).items
\* a topic bound as the formatter reads it: a value that is no number counts as 0
BoundOf(opt) == IF \E x \in opt : x \in Int THEN CHOOSE x \in opt : x \in Int ELSE 0

\* C11: every index stored in a topic of the persisted record is an index into
\* the persisted transcript's segments; and the record of a run whose topics
\* were formatted has one topic per returned topic, whose segments list is
\* strictly ascending and holds exactly the indices i (from 0) of the run's
\* segments with segments[i].end >= start and segments[i].start <= end, start
\* and end being the returned topic's bounds or 0 when they are no numbers.
C11_TopicSegmentIndices ==
  /\ \A rec \in StoredRecords :
       \A k \in 1..Len(rec.topics) : \A j \in 1..Len(rec.topics[k].segments) :
         /\ rec.topics[k].segments[j] >= 0
         /\ rec.topics[k].segments[j] < Len(rec.transcript.segments)
  /\ FormattedRun =>
       \E rec \in StoredRecords :
         /\ rec.transcript.segments = ReturnedSegments
         /\ Len(rec.topics) = Len(ReturnedTopics)
         /\ \A k \in 1..Len(rec.topics) :
              LET idx == rec.topics[k].segments
                  segs == ReturnedSegments
                  lo == BoundOf(ReturnedTopics[k].start)
                  hi == BoundOf(ReturnedTopics[k].end)
              IN  /\ rec.topics[k].start = lo
                  /\ rec.topics[k].end = hi
                  /\ \A a \in 1..Len(idx) : \A b \in 1..Len(idx) : a < b => idx[a] < idx[b]
                  /\ {idx[j] : j \in 1..Len(idx)} =
                       {i \in 0..(Len(segs) - 1) :
                          segs[i + 1].end >= lo /\ segs[i + 1].start <= hi}

\* a formatted topic overlaps the first two of three segments, and another
\* topic, whose end is no number, overlaps none
C11_Witness ==
  /\ FormattedRun
  /\ Len(ReturnedSegments) = 3
  /\ \E rec \in StoredRecords :
       /\ Len(rec.topics) = 2
       /\ rec.topics[1].segments = <<0, 1>>
       /\ rec.topics[2].segments = <<>>
       /\ rec.topics[2].start = 40 /\ rec.topics[2].end = 0

\* how often the call issued a request or reached a step
Count(e) == Cardinality({i \in 1..Len(runLog) : runLog[i] = e})
\* a request was issued and has not come back
TranscribeInFlight ==
  Occurs("transcribeRequest") /\ ~Occurs("transcribeOk") /\ ~Occurs("transcribeFailed")
TopicInFlight == Occurs("topicRequest") /\ ~Occurs("topicsReturned")

\* C14: a processAudio call requests the transcription endpoint at most once and
\* the topic endpoint at most once, also after a failure; the two requests are
\* never in flight together; a failed transcription is followed by no request.
C14_NoRetryNoConcurrency ==
  /\ Count("transcribeRequest") <= 1
  /\ Count("topicRequest") <= 1
  /\ ~(TranscribeInFlight /\ TopicInFlight)
  /\ TranscribeInFlight = (pc = "transcribing")
  /\ TopicInFlight = (pc = "extracting")
  /\ Occurs("transcribeFailed") =>
       /\ ~Occurs("topicRequest")
       /\ pc = "idle"
       /\ Last(runLog) = "toast:destructive:Processing Failed"

\* a call whose topic request failed has completed with one request to each
\* endpoint, after an earlier call whose transcription request failed
C14_Witness ==
  /\ runs = 2
  /\ RunCompleted
  /\ \E r \in topicResp : r.kind \in {"neterr", "badjson"}
  /\ Count("transcribeRequest") = 1
  /\ Count("topicRequest") = 1

\* C22: whenever Index shows the 'ready to explore' prompt or the TopicNavigator
\* for the current file, the last processAudio run wrote the stored record and
\* it ran on that file, also when another file was picked during the run.
C22_StoredRecordIsOfCurrentFile ==
  (ReadyPromptShown \/ NavigatorMounted) =>
    /\ Occurs("write")
    /\ GetItem(storage, NAVIGATOR_KEY) # {}
    /\ runFile.file = currentFile.file

\* C28: the file the uploader handed to Index passes processAudio's type test,
\* and no processAudio call ends with the 'Invalid File' toast.
C28_AcceptedFilePassesValidation ==
  /\ currentFile # NoAudioFile => StartsWith(currentFile.file.type, AUDIO_SLASH)
  /\ ~Occurs("toast:destructive:Invalid File")

(***************************************************************************)
(* lib/audio.ts: AudioProcessor.  Each async method is one action per      *)
(* stretch between awaits; the browser's media element and the passage of  *)
(* time are actions of their own.                                          *)
(***************************************************************************)
\* the files handed to loadAudio
AudioInputs == {f \in Files : f.name \in {"a.mp3", "b.mp3"}}
\* length of the recording in a file, in seconds
AudioDuration(file) == IF file.name = "a.mp3" THEN 3 ELSE 2

Min(a, b) == IF a <= b THEN a ELSE b

\* JavaScript values passed as startTime
Num(v) == [type |-> "number", nan |-> FALSE, v |-> v]
NaN == [type |-> "number", nan |-> TRUE, v |-> 0]
Undefined == [type |-> "undefined", nan |-> FALSE, v |-> 0]

StartTimes == {Undefined, NaN, Num(-1), Num(1), Num(5)}
\* playSegment's default duration
DEFAULT_DURATION == 120

Durations == {-1, 1, DEFAULT_DURATION}

\* an object URL and the file behind it
Url(n, file) == [url |-> n, file |-> file]

\* pause() and load() reject the play() promises that are still pending
RejectPending(ps) ==
  {IF c.promise = "pending" THEN [c EXCEPT !.promise = "rejected"] ELSE c : c \in ps}

\* canplaythrough: playback begins, the pending play() promises resolve
ResolvePending(ps) ==
  {IF c.promise = "pending" THEN [c EXCEPT !.promise = "resolved"] ELSE c : c \in ps}

\* the listeners a loadAudio call attached settle its audioLoadPromise
SettleListeners(ls, ids, how) ==
  {IF l.id \in ids THEN [l EXCEPT !.promise = how] ELSE l : l \in ls}

\* the calls that have not settled (the record of a settled call is dropped
\* when the next call is made or settles)
InFlight(calls) == {c \in calls : c.pc \notin {"resolved", "rejected"}}

\* loadAudio(file) up to its first await: flags reset, old URL revoked,
\* listeners attached, new URL set as the element's src, element.load()
LoadAudio(file) ==
  /\ apIsLoaded' = FALSE
  /\ apLoadError' = {}
  /\ apRevoked' = apRevoked \cup {u.url : u \in apObjectUrl}
  /\ apUrls' = apUrls + 1
  /\ apObjectUrl' = {Url(apUrls + 1, file)}
  /\ elSrc' = {Url(apUrls + 1, file)}
  /\ elState' = "loading"
  /\ elPaused' = TRUE
  /\ elCurrentTime' = 0
  /\ elListeners' = elListeners \cup {apUrls + 1}
  /\ loads' = InFlight(loads) \cup
                {[id |-> apUrls + 1, file |-> file, pc |-> "decoding",
                  promise |-> "pending"]}
  /\ plays' = RejectPending(plays)
  /\ UNCHANGED <<apAudioBuffer, apSourceNode, elPlayedFor, playCount, playArgs>>

\* file.arrayBuffer() and decodeAudioData settle for call l
DecodeDone(l, ok) ==
  /\ l \in loads
  /\ l.pc = "decoding"
  /\ loads' = (loads \ {l}) \cup {[l EXCEPT !.pc = "waiting"]}
  /\ IF ok
     THEN /\ apAudioBuffer' = {[file |-> l.file, duration |-> AudioDuration(l.file)]}
          /\ UNCHANGED apLoadError
     ELSE /\ apLoadError' = {"Failed to decode audio"}
          /\ UNCHANGED apAudioBuffer
  /\ UNCHANGED <<apIsLoaded, apSourceNode, apObjectUrl, apUrls, apRevoked, elVars, plays,
                 playCount, playArgs>>

\* the element fires canplaythrough for its current src
ElementCanPlay ==
  /\ elState = "loading"
  /\ elState' = "ready"
  /\ loads' = SettleListeners(loads, elListeners, "resolved")
  /\ elListeners' = {}
  /\ plays' = IF elPaused THEN plays ELSE ResolvePending(plays)
  /\ UNCHANGED <<apVars, elSrc, elPaused, elCurrentTime, elPlayedFor, playCount, playArgs>>

\* the element fires error for its current src: the constructor's listener
\* records it, the calls' listeners reject
ElementError ==
  /\ elState = "loading"
  /\ elState' = "error"
  /\ apLoadError' = {"Audio element error occurred"}
  /\ loads' = SettleListeners(loads, elListeners, "rejected")
  /\ elListeners' = {}
  /\ elPaused' = TRUE
  /\ plays' = RejectPending(plays)
  /\ UNCHANGED <<apIsLoaded, apAudioBuffer, apSourceNode, apObjectUrl, apUrls, apRevoked,
                 elSrc, elCurrentTime, elPlayedFor, playCount, playArgs>>

\* loadAudio that reports success only with a decoded buffer
LoadSettle_NeedsBuffer(l) ==
  /\ l \in loads
  /\ l.pc = "waiting"
  /\ l.promise # "pending"
  /\ IF l.promise = "resolved" /\ apAudioBuffer # {}
     THEN /\ apIsLoaded' = TRUE
          /\ loads' = (InFlight(loads) \ {l}) \cup {[l EXCEPT !.pc = "resolved"]}
          /\ UNCHANGED apLoadError
     ELSE /\ apIsLoaded' = FALSE
          /\ apLoadError' = {"Error loading audio: Failed to load audio file"}
          /\ loads' = (InFlight(loads) \ {l}) \cup {[l EXCEPT !.pc = "rejected"]}
  /\ UNCHANGED <<apAudioBuffer, apSourceNode, apObjectUrl, apUrls, apRevoked, elVars,
                 plays, playCount, playArgs>>

\* `await audioLoadPromise` of call i settles
LoadSettle(l) ==
  /\ l \in loads
  /\ l.pc = "waiting"
  /\ l.promise # "pending"
  /\ IF l.promise = "resolved"
     THEN /\ apIsLoaded' = TRUE
          /\ loads' = (InFlight(loads) \ {l}) \cup {[l EXCEPT !.pc = "resolved"]}
          /\ UNCHANGED apLoadError
     ELSE /\ apIsLoaded' = FALSE
          /\ apLoadError' = {"Error loading audio: Failed to load audio file"}
          /\ loads' = (InFlight(loads) \ {l}) \cup {[l EXCEPT !.pc = "rejected"]}
  /\ UNCHANGED <<apAudioBuffer, apSourceNode, apObjectUrl, apUrls, apRevoked, elVars,
                 plays, playCount, playArgs>>

\* playSegment whose start-time guard misses NaN
PlayRejection_NoNaNCheck(loaded, loadError, startTime) ==
  IF ~loaded
  THEN IF loadError # {} THEN loadError ELSE {"Audio not loaded properly"}
  ELSE IF startTime.type # "number"
  THEN {"Invalid start time"}
  ELSE {}

\* the two guards at the top of playSegment: the message it throws, or none
PlayRejection(loaded, loadError, startTime) ==
  IF ~loaded
  THEN IF loadError # {} THEN loadError ELSE {"Audio not loaded properly"}
  ELSE IF startTime.type # "number" \/ startTime.nan
  THEN {"Invalid start time"}
  ELSE {}

\* startTime after the two bound checks
ClampStart(startTime, buffer) ==
  LET s1 == IF startTime < 0 THEN 0 ELSE startTime
  IN  IF buffer # {} /\ s1 > (CHOOSE b \in buffer : TRUE).duration THEN 0 ELSE s1

\* actualDuration without the cap at the end of the buffer
SegmentLength_NoCap(duration, bufferDuration, s) == duration

\* actualDuration for a buffer of length bufferDuration played from s
SegmentLength(duration, bufferDuration, s) == Min(duration, bufferDuration - s)

\* createBufferSource() and start(0, s, len); start throws a RangeError for a
\* negative length and leaves the node unstarted
NewSourceNode(startTime, duration, buffer, s) ==
  LET len == SegmentLength(duration, buffer.duration, s)
  IN  [offset |-> s, length |-> len, elapsed |-> 0,
       state |-> IF len < 0 THEN "created" ELSE IF len = 0 THEN "ended" ELSE "playing",
       reqStart |-> startTime, reqDuration |-> duration,
       bufDuration |-> buffer.duration]

\* the length of the media loaded in the element
MediaDuration == IF elSrc = {} THEN 0 ELSE AudioDuration((CHOOSE u \in elSrc : TRUE).file)

\* a playSegment call: where it is, the promise of element.play() it awaits, the
\* message it threw, whether it started a source node / had the element play
PlayCall(id, pcv, promise, message, source, element) ==
  [id |-> id, pc |-> pcv, promise |-> promise, message |-> message, source |-> source,
   element |-> element]

\* playSegment(startTime, duration) up to `await this.audioElement.play()`, or to
\* its end when play() fails at once; allowed: whether the browser lets play()
\* start playback
PlaySegment(startTime, duration, allowed) ==
  /\ playArgs' = [start |-> startTime, duration |-> duration]
  /\ playCount' = playCount + 1
  /\ LET rejection == PlayRejection(apIsLoaded, apLoadError, startTime)
         id == playCount + 1
     IN
     IF rejection # {}
     THEN /\ plays' = InFlight(plays) \cup
                        {PlayCall(id, "rejected", "none", CHOOSE m \in rejection : TRUE,
                                  FALSE, FALSE)}
          /\ UNCHANGED <<apSourceNode, elPaused, elCurrentTime, elPlayedFor>>
     ELSE LET s == ClampStart(startTime.v, apAudioBuffer)
              node == {NewSourceNode(startTime.v, duration, b, s) : b \in apAudioBuffer}
              started == \E n \in node : n.state # "created"
              canPlay == allowed /\ elState \in {"loading", "ready"}
          IN  /\ apSourceNode' = node
              /\ IF node # {} /\ ~started
                 THEN \* start() threw: the outer catch rethrows; stop() has paused
                      /\ elPaused' = TRUE
                      /\ UNCHANGED <<elCurrentTime, elPlayedFor>>
                      /\ plays' = InFlight(RejectPending(plays)) \cup
                                    {PlayCall(id, "rejected", "none",
                                              "Failed to play audio", FALSE, FALSE)}
                 ELSE /\ elCurrentTime' = IF elState = "ready" THEN Min(s, MediaDuration)
                                          ELSE elCurrentTime
                      /\ elPaused' = ~canPlay
                      /\ elPlayedFor' = 0
                      /\ plays' = InFlight(RejectPending(plays)) \cup
                           {IF canPlay
                            THEN PlayCall(id, "awaitPlay",
                                          IF elState = "ready" THEN "resolved"
                                          ELSE "pending",
                                          "", started, TRUE)
                            \* play() returns a rejected promise: the catch is the
                            \* next thing to run
                            ELSE IF started
                            THEN PlayCall(id, "resolved", "rejected", "", TRUE, FALSE)
                            ELSE PlayCall(id, "rejected", "rejected",
                                          "Failed to play audio", FALSE, FALSE)}
  /\ UNCHANGED <<apIsLoaded, apLoadError, apAudioBuffer, apObjectUrl, apUrls, apRevoked,
                 elSrc, elState, elListeners, loads>>

\* the await on play() of call c settles, after a play() promise that was
\* pending has been resolved or rejected: a rejection is swallowed when a source
\* node exists, and rethrown otherwise
PlaySettle(c) ==
  /\ c \in plays
  /\ c.pc = "awaitPlay"
  /\ c.promise # "pending"
  /\ plays' = (InFlight(plays) \ {c}) \cup
                {IF c.promise = "resolved" \/ apSourceNode # {}
                 THEN [c EXCEPT !.pc = "resolved"]
                 ELSE [c EXCEPT !.pc = "rejected", !.message = "Failed to play audio"]}
  /\ UNCHANGED <<apVars, elVars, loads, playCount, playArgs>>

\* stop() without the try around sourceNode.stop(): its error goes to the outer
\* catch, past `this.sourceNode = null` and the pause
stop_NoInnerTry(node) ==
  IF \E n \in node : n.state = "created"
  THEN [sourceNode |-> node, paused |-> FALSE, caught |-> TRUE, threw |-> FALSE]
  ELSE [sourceNode |-> {}, paused |-> TRUE, caught |-> FALSE, threw |-> FALSE]

\* what stop() does with the source node `node` ({} for null): sourceNode.stop()
\* raises an error for a node that was never started, which is caught; the node
\* is dropped and the element is asked to pause; nothing is thrown
stop(node) ==
  [sourceNode |-> {}, paused |-> TRUE,
   caught |-> \E n \in node : n.state = "created", threw |-> FALSE]

\* stop(): the source node is stopped and dropped, the element paused
Stop ==
  /\ LET out == stop(apSourceNode) IN
       /\ apSourceNode' = out.sourceNode
       /\ elPaused' = (out.paused \/ elPaused)
       /\ plays' = IF out.paused THEN RejectPending(plays) ELSE plays
  /\ UNCHANGED <<apIsLoaded, apLoadError, apAudioBuffer, apObjectUrl, apUrls, apRevoked,
                 elSrc, elState, elCurrentTime, elPlayedFor, elListeners, loads, playCount,
                 playArgs>>

\* cleanup() without `this.isLoaded = false`
Cleanup_KeepsLoaded ==
  /\ LET out == stop(apSourceNode) IN
       /\ apSourceNode' = out.sourceNode
       /\ elPaused' = (out.paused \/ elPaused)
       /\ plays' = IF out.paused THEN RejectPending(plays) ELSE plays
  /\ apRevoked' = apRevoked \cup {u.url : u \in apObjectUrl}
  /\ apObjectUrl' = {}
  /\ apAudioBuffer' = {}
  /\ UNCHANGED <<apIsLoaded, apLoadError, apUrls, elSrc, elState, elCurrentTime,
                 elPlayedFor, elListeners, loads, playCount, playArgs>>

\* cleanup(): stop(), the object URL revoked, buffer and isLoaded cleared
Cleanup ==
  /\ LET out == stop(apSourceNode) IN
       /\ apSourceNode' = out.sourceNode
       /\ elPaused' = (out.paused \/ elPaused)
       /\ plays' = IF out.paused THEN RejectPending(plays) ELSE plays
  /\ apRevoked' = apRevoked \cup {u.url : u \in apObjectUrl}
  /\ apObjectUrl' = {}
  /\ apAudioBuffer' = {}
  /\ apIsLoaded' = FALSE
  /\ UNCHANGED <<apLoadError, apUrls, elSrc, elState, elCurrentTime, elPlayedFor,
                 elListeners, loads, playCount, playArgs>>

\* one second passes: a playing source node ends after its length, a playing
\* element ends at the end of its media
Tick ==
  /\ \/ \E n \in apSourceNode : n.state = "playing"
     \/ (~elPaused /\ elState = "ready")
  /\ apSourceNode' =
       {IF n.state # "playing" THEN n
        ELSE [n EXCEPT !.elapsed = @ + 1,
                       !.state = IF n.elapsed + 1 >= n.length THEN "ended" ELSE "playing"]
        : n \in apSourceNode}
  /\ IF ~elPaused /\ elState = "ready"
     THEN IF elCurrentTime >= MediaDuration
          THEN /\ elPaused' = TRUE
               /\ UNCHANGED <<elCurrentTime, elPlayedFor>>
          ELSE /\ elCurrentTime' = elCurrentTime + 1
               /\ elPlayedFor' = elPlayedFor + 1
               /\ elPaused' = (elCurrentTime + 1 >= MediaDuration)
     ELSE UNCHANGED <<elPaused, elCurrentTime, elPlayedFor>>
  /\ UNCHANGED <<apIsLoaded, apLoadError, apAudioBuffer, apObjectUrl, apUrls, apRevoked,
                 elSrc, elState, elListeners, loads, plays, playCount, playArgs>>

\* the AudioProcessor with overlapping loadAudio calls; playSegment is called
\* the way TopicNavigator calls it for a topic, and the passing of playback
\* time, which no flag of the loader depends on, is left to SpecPlay
NextAudio ==
  \/ \E file \in AudioInputs :
       apUrls < MaxLoads /\ LoadAudio(file) /\ UNCHANGED nonAudioVars
  \/ \E l \in loads : \E ok \in BOOLEAN : DecodeDone(l, ok) /\ UNCHANGED nonAudioVars
  \/ ElementCanPlay /\ UNCHANGED nonAudioVars
  \/ ElementError /\ UNCHANGED nonAudioVars
  \/ \E l \in loads : LoadSettle(l) /\ UNCHANGED nonAudioVars
  \/ \E allowed \in BOOLEAN :
       /\ playCount < MaxAudioPlays
       /\ PlaySegment(Num(0), DEFAULT_DURATION, allowed)
       /\ UNCHANGED nonAudioVars
  \/ \E c \in plays : PlaySettle(c) /\ UNCHANGED nonAudioVars
  \/ Stop /\ UNCHANGED nonAudioVars
  \/ Cleanup /\ UNCHANGED nonAudioVars

SpecAudio == Init /\ [][NextAudio]_vars

\* a loadAudio call may start: fewer than MaxLoads so far, none in flight
NoLoadInFlight ==
  /\ apUrls < MaxLoads
  /\ InFlight(loads) = {}

\* one file loaded into the AudioProcessor, again after the first load has
\* settled, and playSegment with any arguments
NextPlay ==
  \/ \E file \in {f \in AudioInputs : f.name = "a.mp3"} :
       NoLoadInFlight /\ LoadAudio(file) /\ UNCHANGED nonAudioVars
  \/ \E l \in loads : \E ok \in BOOLEAN : DecodeDone(l, ok) /\ UNCHANGED nonAudioVars
  \/ ElementCanPlay /\ UNCHANGED nonAudioVars
  \/ ElementError /\ UNCHANGED nonAudioVars
  \/ \E l \in loads : LoadSettle(l) /\ UNCHANGED nonAudioVars
  \/ \E startTime \in StartTimes : \E duration \in Durations : \E allowed \in BOOLEAN :
       /\ playCount < MaxPlays
       /\ PlaySegment(startTime, duration, allowed)
       /\ UNCHANGED nonAudioVars
  \/ \E c \in plays : PlaySettle(c) /\ UNCHANGED nonAudioVars
  \/ Stop /\ UNCHANGED nonAudioVars
  \/ Cleanup /\ UNCHANGED nonAudioVars
  \/ Tick /\ UNCHANGED nonAudioVars

SpecPlay == Init /\ [][NextPlay]_vars

(***************************************************************************)
(* Properties of AudioProcessor.playSegment (SpecPlay) and loadAudio       *)
(* (SpecAudio).                                                            *)
(***************************************************************************)
\* a playSegment call is made in this step; the call
PlayCalled == playCount' = playCount + 1
NewCall == CHOOSE c \in plays' : c.id = playCount'
\* the last playSegment call, while its record is kept
LastCall == {c \in plays : c.id = playCount}

\* C6: playSegment rejects when isLoaded is false, with the loadError message if
\* one is set and 'Audio not loaded properly' otherwise, and rejects with 'Invalid
\* start time' for a start time that is no number or NaN; in both cases the
\* source node, the element's paused state and the pending play() promises are
\* left as they were.
C6_GuardsBeforeStop ==
  [][ PlayCalled =>
        LET badStart == playArgs'.start \in {Undefined, NaN}
            untouched == /\ apSourceNode' = apSourceNode
                         /\ elPaused' = elPaused
                         /\ InFlight(plays) \subseteq plays'
        IN  /\ ~apIsLoaded =>
                 /\ NewCall.pc = "rejected"
                 /\ NewCall.message =
                      IF apLoadError = {} THEN "Audio not loaded properly"
                      ELSE CHOOSE m \in apLoadError : TRUE
                 /\ untouched
            /\ (apIsLoaded /\ badStart) =>
                 /\ NewCall.pc = "rejected"
                 /\ NewCall.message = "Invalid start time"
                 /\ untouched ]_vars

\* a call with a NaN start time was rejected while both paths were playing
C6_Witness ==
  /\ \E c \in LastCall : c.message = "Invalid start time"
  /\ playArgs.start = NaN
  /\ \E n \in apSourceNode : n.state = "playing"
  /\ ~elPaused

\* C7: with a decoded buffer of duration D, a source node that playSegment
\* started plays from an offset s with 0 <= s <= D, where a negative or too large
\* start time became 0, for the length min(duration, D - s); so s + length <= D.
C7_BufferSegmentInBounds ==
  \A n \in apSourceNode :
    n.state # "created" =>
      LET D == n.bufDuration IN
      /\ 0 <= n.offset /\ n.offset <= D
      /\ n.reqStart < 0 => n.offset = 0
      /\ n.reqStart > D => n.offset = 0
      /\ (0 <= n.reqStart /\ n.reqStart <= D) => n.offset = n.reqStart
      /\ n.reqDuration <= D - n.offset => n.length = n.reqDuration
      /\ n.reqDuration > D - n.offset => n.length = D - n.offset
      /\ n.offset + n.length <= D

\* a start time beyond the buffer was played from 0, cut at the buffer's end
C7_Witness ==
  \E n \in apSourceNode :
    /\ n.state = "playing"
    /\ n.reqStart > n.bufDuration
    /\ n.reqDuration = DEFAULT_DURATION
    /\ n.length = n.bufDuration

\* C8: the element is started by a playSegment call only when that call did not
\* start a buffer source.
C8_ElementOnlyAsFallback ==
  \A c \in plays : ~(c.source /\ c.element)

\* C9: a playback started by playSegment(startTime, duration) stops once the
\* duration has elapsed, on the buffer path and on the element path.
C9_BoundedByDuration ==
  /\ \A n \in apSourceNode :
       (n.state = "playing" /\ n.reqDuration > 0) => n.elapsed < n.reqDuration
  /\ ((\E c \in LastCall : c.element) /\ playArgs.duration > 0
      /\ ~elPaused /\ elState = "ready")
       => elPlayedFor < playArgs.duration

\* C10: a loadAudio call resolves exactly when its element promise resolved
\* (canplaythrough), also after a decode failure, and then isLoaded is true; it
\* rejects exactly when the element reported an error, also after a successful
\* decode, and then isLoaded is false.  A loaded processor without a buffer
\* accepts playSegment and starts no source node.
C10_LoadToleratesDecodeFailure ==
  [][ /\ \A l \in loads : \A m \in loads' :
           (l.id = m.id /\ l.pc = "waiting" /\ m.pc # "waiting") =>
             /\ l.promise = "resolved" => (m.pc = "resolved" /\ apIsLoaded')
             /\ l.promise = "rejected" => (m.pc = "rejected" /\ ~apIsLoaded')
      /\ (PlayCalled /\ apIsLoaded /\ apAudioBuffer = {}) =>
           /\ NewCall.promise # "none"
           /\ NewCall.element => NewCall.pc = "awaitPlay"
           /\ ~NewCall.source
           /\ apSourceNode' = {} ]_vars

\* after a failed decode and canplaythrough the file plays through the element
C10_Witness ==
  /\ \E l \in loads : l.pc = "resolved"
  /\ apIsLoaded
  /\ apLoadError = {"Failed to decode audio"}
  /\ apAudioBuffer = {}
  /\ \E c \in LastCall : c.pc = "resolved" /\ c.element /\ ~c.source
  /\ elState = "ready"
  /\ ~elPaused

\* C15: when the element's play() fails, a playSegment call that started a
\* buffer source resolves, and a call that rejects does so with 'Failed to play
\* audio' while no buffer source exists; a call that reaches play() has stopped
\* what played before it (no play() promise of an earlier call is still pending).
C15_PlayFailureSwallowed ==
  [][ /\ \A c \in plays : \A d \in plays' :
           (c.id = d.id /\ c.pc = "awaitPlay" /\ c.promise = "rejected"
            /\ d.pc # "awaitPlay") =>
             /\ c.source => d.pc = "resolved"
             /\ d.pc = "rejected" =>
                  (d.message = "Failed to play audio" /\ apSourceNode' = {})
      /\ (PlayCalled /\ NewCall.promise = "rejected") =>
           /\ NewCall.source => NewCall.pc = "resolved"
           /\ NewCall.pc = "rejected" =>
                (NewCall.message = "Failed to play audio" /\ apSourceNode' = {})
      /\ (PlayCalled /\ NewCall.promise # "none") =>
           \A c \in plays : c.promise = "pending" =>
             \E d \in plays' : d.id = c.id /\ d.promise = "rejected" ]_vars

\* C16: stop() never throws, also when sourceNode.stop() raises an error; it
\* leaves sourceNode null and asks the element to pause, and it leaves isLoaded,
\* loadError, audioBuffer and objectUrl as they are; a second stop() right after
\* it changes nothing.
C16_StopIsSafe ==
  /\ [](LET out == stop(apSourceNode)
        IN  ~out.threw /\ out.sourceNode = {} /\ out.paused)
  /\ [][ Stop =>
           /\ apSourceNode' = {}
           /\ elPaused'
           /\ \A c \in plays' : c.promise # "pending"
           /\ UNCHANGED <<apIsLoaded, apLoadError, apAudioBuffer, apObjectUrl>>
           /\ stop(apSourceNode').sourceNode = apSourceNode'
           /\ RejectPending(plays') = plays' ]_vars

\* stop() has dropped a source node whose start() had thrown (its stop() raises
\* an error), with the buffer of the only load still in place
C16_Witness ==
  /\ apUrls = 1
  /\ apIsLoaded
  /\ apAudioBuffer # {}
  /\ apObjectUrl # {}
  /\ \E c \in LastCall : c.promise = "none" /\ c.message = "Failed to play audio"
  /\ apSourceNode = {}

\* the processor as cleanup() leaves it
CleanedUp ==
  /\ apSourceNode = {}
  /\ apAudioBuffer = {}
  /\ ~apIsLoaded
  /\ apObjectUrl = {}
  /\ elPaused
  /\ \A c \in plays : c.promise # "pending"

\* C17: cleanup() never throws; after it playback is stopped, sourceNode and
\* audioBuffer are null, isLoaded is false and objectUrl is null with the URL it
\* held revoked; a playSegment call made right after it is rejected.
C17_CleanupReleasesEverything ==
  /\ [][ Cleanup =>
           /\ ~stop(apSourceNode).threw
           /\ CleanedUp'
           /\ \A u \in apObjectUrl : u.url \in apRevoked'
           /\ UNCHANGED apLoadError ]_vars
  /\ [][ CleanedUp /\ PlayCalled =>
           /\ NewCall.pc = "rejected"
           /\ NewCall.message \in apLoadError \cup {"Audio not loaded properly"}
           /\ CleanedUp' ]_vars

\* after the only load finished, cleanup() revoked its URL and dropped the
\* buffer, and the playSegment call that followed was rejected
C17_Witness ==
  /\ apUrls = 1
  /\ 1 \in apRevoked
  /\ \A l \in loads : l.pc = "resolved"
  /\ CleanedUp
  /\ \E c \in LastCall : c.pc = "rejected" /\ c.message = "Audio not loaded properly"

\* C23: once every loadAudio call has settled and the last one resolved, the
\* decoded audioBuffer is null or was decoded from the file the media element
\* holds, which is the file passed last.
C23_BufferMatchesLoadedFile ==
  (/\ \A l \in loads : l.pc \in {"resolved", "rejected"}
   /\ \E l \in loads : l.id = apUrls /\ l.pc = "resolved") =>
    /\ \A u \in elSrc : u.url = apUrls
    /\ \A b \in apAudioBuffer : \A u \in elSrc : b.file = u.file

\* C25: isLoaded is true only while loadError is null.
C25_LoadedMeansNoError ==
  apIsLoaded => apLoadError = {}

\* cleanup() has returned and loadAudio has not been called since: only
\* cleanup() clears objectUrl, and every loadAudio call sets it
CleanedUpSinceLastLoad == apUrls > 0 /\ apObjectUrl = {}

\* C24: from the return of cleanup() until the next loadAudio call, isLoaded is
\* false and audioBuffer is null, also when a loadAudio call made before the
\* cleanup settles after it.
C24_CleanupHolds ==
  CleanedUpSinceLastLoad => (~apIsLoaded /\ apAudioBuffer = {})

(***************************************************************************)
(* TopicNavigator.tsx: what the topic list shows.                          *)
(***************************************************************************)
UPPER ==
  <<"A", "B", "C", "D", "E", "F", "G", "H", "I", "J", "K", "L", "M",
    "N", "O", "P", "Q", "R", "S", "T", "U", "V", "W", "X", "Y", "Z">>
LOWER ==
  <<"a", "b", "c", "d", "e", "f", "g", "h", "i", "j", "k", "l", "m",
    "n", "o", "p", "q", "r", "s", "t", "u", "v", "w", "x", "y", "z">>

\* String.prototype.toLowerCase
ToLowerCase(s) ==
  [i \in 1..Len(s) |->
     IF \E k \in 1..Len(UPPER) : UPPER[k] = s[i]
     THEN LOWER[CHOOSE k \in 1..Len(UPPER) : UPPER[k] = s[i]]
     ELSE s[i]]

\* s.split(' ')[0]: what precedes the first space
SplitFirst(s) ==
  LET spaces == {i \in 1..Len(s) : s[i] = " "}
  IN  IF spaces = {} THEN s
      ELSE SubSeq(s, 1, (CHOOSE i \in spaces : \A j \in spaces : i <= j) - 1)

GENERAL == <<"g", "e", "n", "e", "r", "a", "l">>

\* transcriptData?.topics || []
StoredTopics(data) == IF data = {} THEN <<>> ELSE (CHOOSE d \in data : TRUE).topics

filteredTopics(query, data) ==
  IF query = <<>> THEN StoredTopics(data)
  ELSE SelectSeq(StoredTopics(data),
                 LAMBDA topic :
                   \/ Includes(ToLowerCase(topic.title), ToLowerCase(query))
                   \/ Includes(ToLowerCase(topic.description), ToLowerCase(query)))

\* the category taken from the title's first word as it is written
CategoryOf_KeepCase(topic) ==
  LET word == SplitFirst(topic.title)
  IN  IF word = <<>> THEN GENERAL ELSE word

\* the category of a topic: (title.split(' ')[0].toLowerCase()) || 'general'
CategoryOf(topic) ==
  LET word == ToLowerCase(SplitFirst(topic.title))
  IN  IF word = <<>> THEN GENERAL ELSE word

\* topics.forEach over a Map, whose entries keep their insertion order
RECURSIVE CategorizeInto(_, _)
CategorizeInto(categories, tps) ==
  IF tps = <<>> THEN categories
  ELSE LET topic == Head(tps)
           category == CategoryOf(topic)
           at == {i \in 1..Len(categories) : categories[i].category = category}
       IN  CategorizeInto(
             IF at = {}
             THEN Append(categories, [category |-> category, topics |-> <<topic>>])
             ELSE [categories EXCEPT ![CHOOSE i \in at : TRUE].topics = Append(@, topic)],
             Tail(tps))

categorizeTopics(tps) == CategorizeInto(<<>>, tps)

categorizedTopics(data) ==
  IF data = {} THEN <<>> ELSE categorizeTopics((CHOOSE d \in data : TRUE).topics)

RECURSIVE TopicsOf(_)
TopicsOf(categories) ==
  IF categories = <<>> THEN <<>>
  ELSE Head(categories).topics \o TopicsOf(Tail(categories))

\* the topics the list renders, top to bottom: the categories when there are
\* filtered topics and categories, the filtered topics when there are no
\* categories, and none ("No topics matched your search") otherwise
TopicList(query, data) ==
  IF Len(filteredTopics(query, data)) > 0
  THEN IF Len(categorizedTopics(data)) > 0
       THEN TopicsOf(categorizedTopics(data))
       ELSE filteredTopics(query, data)
  ELSE <<>>

Elements(q) == {q[i] : i \in 1..Len(q)}
(***************************************************************************)
(* TopicNavigator.tsx: the mounted component with its AudioProcessor.      *)
(* The navigator is mounted by "Go to Topics" after a run on an accepted   *)
(* file has stored its record.                                             *)
(***************************************************************************)
\* number of playSegment calls the navigator makes in one behaviour
MaxNavPlays == 2

\* what the search box is given
Queries ==
  { <<>>, <<"I", "n", "t", "r", "O">>, <<"z", "z">> }

\* the responses of the run that stored the navigator's record
NavTranscribeResponses ==
  { [kind |-> "ok", text |-> {<<"h", "i">>},
     segments |-> {<<Seg(0, 0, 30), Seg(1, 30, 100), Seg(2, 200, 250)>>},
     quota |-> FALSE] }
NavTopicResponses ==
  {r \in TopicResponses :
     \/ r.kind = "other"
     \/ r.kind = "array" /\ Len(r.items) \in {0, 4}}

\* Index after UploadFile(file), ProcessAudio, TranscribeReturn(tresp),
\* TopicsReturn(presp) and GoToTopics, with the navigator rendered and its
\* effects still to run
InitNavigator ==
  \E file \in {f \in AudioInputs : f.name = "a.mp3"} :
  \E tresp \in NavTranscribeResponses : \E presp \in NavTopicResponses :
    LET audioFile == processFile(file, 0, FALSE).selected[1]
        result == uploadAndTranscribe(tresp)
        extracted == extractTopics(result.text, presp)
        tps == RunTopics(result, extracted)
        store == SetItem({}, PROCESSOR_KEY, TranscriptData(result, tps))
    IN  /\ currentFile = audioFile
        /\ idxIsProcessing = FALSE
        /\ isProcessed = TRUE
        /\ showTopics = TRUE
        /\ upIsProcessing = FALSE
        /\ urlCount = 1
        /\ lastUpload = [file |-> file, selected |-> <<audioFile>>, toast |-> "",
                         urlsBefore |-> 0]
        /\ tpIsProcessing = FALSE
        /\ transcript = result.text
        /\ segments = result.segments
        /\ topics = tps
        /\ pc = "idle"
        /\ runFile = audioFile
        /\ runResult = result
        /\ runs = 1
        /\ runLog = <<"onProcessingStart", "transcribeRequest", "transcribeOk",
                      TranscriptionToast(result), "topicRequest">>
                    \o (IF FormatThrows(extracted)
                        THEN <<"topicsReturned", "toast:default:Topic Extraction Issue">>
                        ELSE <<"topicsReturned">>)
                    \o <<"write", "onProcessingComplete">>
        /\ transcribeResp = {tresp}
        /\ topicResp = {presp}
        /\ storage = store
        /\ navData = GetItem(store, NAVIGATOR_KEY)
        /\ InitAudio
        /\ navPc = "mounting"
        /\ searchQuery = <<>>
        /\ selectedTopic = {}
        /\ isPlaying = FALSE
        /\ audioLoaded = FALSE
        /\ audioLoadError = {}
        /\ navToast = ""
        /\ navCall = NoTopicCall
        /\ navLoadAwait = {}
        /\ navPlayAwait = {}
        /\ InitLecture
        /\ InitFn

\* the two mount effects: a new AudioProcessor loads audioFile.file, and the
\* first stored topic becomes the selected one
NavMount ==
  /\ navPc = "mounting"
  /\ navPc' = "mounted"
  /\ audioLoaded' = FALSE
  /\ audioLoadError' = {}
  /\ LoadAudio(currentFile.file)
  /\ navLoadAwait' = {apUrls + 1}
  /\ selectedTopic' = IF Len(StoredTopics(navData)) > 0
                      THEN {StoredTopics(navData)[1]} ELSE selectedTopic
  /\ UNCHANGED <<searchQuery, isPlaying, navToast, navCall, navPlayAwait>>
  /\ UNCHANGED <<procVars, lectVars, fnVars>>

\* the effect's loadAudio() with setAudioLoaded(true) moved behind the try/catch
NavLoadSettle_LoadedAfterCatch(l) ==
  /\ LoadSettle(l)
  /\ navLoadAwait' = navLoadAwait \ {l.id}
  /\ IF l.id \in navLoadAwait /\ navPc = "mounted"
     THEN /\ audioLoaded' = TRUE
          /\ audioLoadError' = IF l.promise = "resolved" THEN audioLoadError
                               ELSE {"Failed to load audio: Failed to load audio file"}
     ELSE UNCHANGED <<audioLoaded, audioLoadError>>
  /\ UNCHANGED <<navPc, searchQuery, selectedTopic, isPlaying, navToast, navCall,
                 navPlayAwait>>
  /\ UNCHANGED <<procVars, lectVars, fnVars>>

\* the loadAudio call l settles and the effect's loadAudio() continues; a state
\* update of an unmounted component does nothing
NavLoadSettle(l) ==
  /\ LoadSettle(l)
  /\ navLoadAwait' = navLoadAwait \ {l.id}
  /\ IF l.id \in navLoadAwait /\ navPc = "mounted"
     THEN IF l.promise = "resolved"
          THEN audioLoaded' = TRUE /\ UNCHANGED audioLoadError
          ELSE /\ audioLoadError' = {"Failed to load audio: Failed to load audio file"}
               /\ UNCHANGED audioLoaded
     ELSE UNCHANGED <<audioLoaded, audioLoadError>>
  /\ UNCHANGED <<navPc, searchQuery, selectedTopic, isPlaying, navToast, navCall,
                 navPlayAwait>>
  /\ UNCHANGED <<procVars, lectVars, fnVars>>

\* the search box changes
SetSearchQuery(query) ==
  /\ navPc = "mounted"
  /\ searchQuery' = query
  /\ UNCHANGED <<navPc, selectedTopic, isPlaying, audioLoaded, audioLoadError, navToast,
                 navCall, navLoadAwait, navPlayAwait>>
  /\ UNCHANGED <<procVars, audioVars, lectVars, fnVars>>

\* `await audioProcessorRef.current.playSegment(start, duration)` up to the
\* await inside playSegment: a call that has settled by then goes on to
\* setIsPlaying(true) or to the handler's catch, any other is waited for
AwaitPlaySegment(start, duration, allowed) ==
  /\ PlaySegment(Num(start), duration, allowed)
  /\ LET call == CHOOSE c \in plays' : c.id = playCount' IN
       /\ navToast' = IF call.pc = "rejected" THEN "Playback Error" ELSE navToast
       /\ isPlaying' = IF call.pc = "resolved" THEN TRUE ELSE isPlaying
       /\ navPlayAwait' = IF call.pc = "awaitPlay" THEN navPlayAwait \cup {call.id}
                          ELSE navPlayAwait

\* handleTopicSelect without its `if (!audioLoaded)` return
handleTopicSelect_NoLoadedTest(topic, allowed) ==
  /\ navPc = "mounted"
  /\ topic \in Elements(TopicList(searchQuery, navData))
  /\ selectedTopic' = {topic}
  /\ navCall' = [op |-> "handleTopicSelect", topic |-> {topic}]
  /\ AwaitPlaySegment(topic.start, DEFAULT_DURATION, allowed)
  /\ UNCHANGED <<navPc, searchQuery, audioLoaded, audioLoadError, navLoadAwait>>
  /\ UNCHANGED <<procVars, lectVars, fnVars>>

\* a click on a topic of the list; the stored start of a topic is a number
handleTopicSelect(topic, allowed) ==
  /\ navPc = "mounted"
  /\ topic \in Elements(TopicList(searchQuery, navData))
  /\ selectedTopic' = {topic}
  /\ navCall' = [op |-> "handleTopicSelect", topic |-> {topic}]
  /\ IF ~audioLoaded
     THEN /\ navToast' = "Audio Not Ready"
          /\ UNCHANGED <<isPlaying, navPlayAwait, audioVars>>
     ELSE AwaitPlaySegment(topic.start, DEFAULT_DURATION, allowed)
  /\ UNCHANGED <<navPc, searchQuery, audioLoaded, audioLoadError, navLoadAwait>>
  /\ UNCHANGED <<procVars, lectVars, fnVars>>

\* the Play Topic / Stop button
playPauseTopic(allowed) ==
  /\ navPc = "mounted"
  /\ navCall' = [op |-> "playPauseTopic", topic |-> selectedTopic]
  /\ IF selectedTopic = {}
     THEN /\ navToast' = "No Topic Selected"
          /\ UNCHANGED <<isPlaying, navPlayAwait, audioVars>>
     ELSE IF isPlaying
     THEN /\ Stop
          /\ isPlaying' = FALSE
          /\ UNCHANGED <<navToast, navPlayAwait>>
     ELSE IF ~audioLoaded
     THEN /\ navToast' = "Audio Not Ready"
          /\ UNCHANGED <<isPlaying, navPlayAwait, audioVars>>
     ELSE AwaitPlaySegment((CHOOSE t \in selectedTopic : TRUE).start, DEFAULT_DURATION,
                           allowed)
  /\ UNCHANGED <<navPc, searchQuery, selectedTopic, audioLoaded, audioLoadError,
                 navLoadAwait>>
  /\ UNCHANGED <<procVars, lectVars, fnVars>>

\* the segments the selected topic lists with a Play Segment button
ListedSegments ==
  {seg \in UNION {Elements(d.transcript.segments) : d \in navData} :
     \E t \in selectedTopic : \E d \in navData :
       \E k \in 1..Len(t.segments) :
         /\ t.segments[k] + 1 \in 1..Len(d.transcript.segments)
         /\ d.transcript.segments[t.segments[k] + 1] = seg}

\* a Play Segment button: playSegment(segment.start, 30), not awaited
PlaySegmentButton(segment, allowed) ==
  /\ navPc = "mounted"
  /\ segment \in ListedSegments
  /\ PlaySegment(Num(segment.start), 30, allowed)
  /\ navCall' = [op |-> "playSegmentButton", topic |-> selectedTopic]
  /\ UNCHANGED <<navPc, searchQuery, selectedTopic, isPlaying, audioLoaded,
                 audioLoadError, navToast, navLoadAwait, navPlayAwait>>
  /\ UNCHANGED <<procVars, lectVars, fnVars>>

\* playSegment call c settles; a handler that waits for it continues with
\* setIsPlaying(true) or with its catch
NavPlaySettle(c) ==
  /\ PlaySettle(c)
  /\ navPlayAwait' = navPlayAwait \ {c.id}
  /\ IF c.id \in navPlayAwait /\ navPc = "mounted"
     THEN IF \E d \in plays' : d.id = c.id /\ d.pc = "resolved"
          THEN isPlaying' = TRUE /\ UNCHANGED navToast
          ELSE navToast' = "Playback Error" /\ UNCHANGED isPlaying
     ELSE UNCHANGED <<isPlaying, navToast>>
  /\ UNCHANGED <<navPc, searchQuery, selectedTopic, audioLoaded, audioLoadError, navCall,
                 navLoadAwait>>
  /\ UNCHANGED <<procVars, lectVars, fnVars>>

\* "Upload Different Lecture": Index's onReset unmounts the navigator, whose
\* effect cleanup calls AudioProcessor.cleanup()
NavUnmount ==
  /\ navPc = "mounted"
  /\ NavigatorMounted
  /\ onReset
  /\ Cleanup
  /\ navPc' = "unmounted"
  /\ UNCHANGED <<searchQuery, selectedTopic, isPlaying, audioLoaded, audioLoadError,
                 navToast, navCall, navLoadAwait, navPlayAwait>>
  /\ UNCHANGED <<lectVars, fnVars>>

NextNav ==
  \/ NavMount
  \/ \E l \in loads : \E ok \in BOOLEAN : DecodeDone(l, ok) /\ UNCHANGED nonAudioVars
  \/ ElementCanPlay /\ UNCHANGED nonAudioVars
  \/ ElementError /\ UNCHANGED nonAudioVars
  \/ \E l \in loads : NavLoadSettle(l)
  \/ \E query \in Queries : SetSearchQuery(query)
  \/ \E topic \in Elements(StoredTopics(navData)) : \E allowed \in BOOLEAN :
       /\ audioLoaded => playCount < MaxNavPlays
       /\ handleTopicSelect(topic, allowed)
  \/ \E allowed \in BOOLEAN :
       /\ (selectedTopic # {} /\ ~isPlaying /\ audioLoaded) => playCount < MaxNavPlays
       /\ playPauseTopic(allowed)
  \/ \E segment \in ListedSegments : \E allowed \in BOOLEAN :
       /\ playCount < MaxNavPlays
       /\ PlaySegmentButton(segment, allowed)
  \/ \E c \in plays : NavPlaySettle(c)
  \/ NavUnmount

SpecNav == InitNavigator /\ [][NextNav]_vars

(***************************************************************************)
(* Properties of the TopicNavigator (SpecNav).                             *)
(***************************************************************************)
\* the stored topics whose title or description contains the query, whatever
\* the case of the letters
Matching(query, data) ==
  {t \in Elements(StoredTopics(data)) :
     \/ Includes(ToLowerCase(t.title), ToLowerCase(query))
     \/ Includes(ToLowerCase(t.description), ToLowerCase(query))}

\* C12: with a non-empty search query the topic list shows exactly the stored
\* topics whose title or description contains the query case-insensitively.
C12_SearchFiltersTopicList ==
  (navPc = "mounted" /\ searchQuery # <<>>) =>
    Elements(TopicList(searchQuery, navData)) = Matching(searchQuery, navData)

\* C18: while audioLoaded is false, handleTopicSelect and playPauseTopic make no
\* playSegment call and leave isPlaying as it is; handleTopicSelect sets
\* selectedTopic to the clicked topic and shows the 'Audio Not Ready' toast, and
\* so does playPauseTopic when a topic is selected.
C18_NoPlaybackBeforeLoad ==
  [][ ~audioLoaded =>
        /\ \A topic \in Elements(StoredTopics(navData)) : \A allowed \in BOOLEAN :
             (navCall' = [op |-> "handleTopicSelect", topic |-> {topic}]
                /\ handleTopicSelect(topic, allowed)) =>
               /\ playCount' = playCount
               /\ UNCHANGED <<isPlaying, audioVars>>
               /\ selectedTopic' = {topic}
               /\ navToast' = "Audio Not Ready"
        /\ \A allowed \in BOOLEAN :
             (navCall'.op = "playPauseTopic" /\ playPauseTopic(allowed)) =>
               /\ playCount' = playCount
               /\ UNCHANGED <<isPlaying, audioVars, selectedTopic>>
               /\ selectedTopic # {} => navToast' = "Audio Not Ready" ]_vars

\* a topic other than the first was clicked before the audio had loaded: it is
\* selected, the toast is up and nothing was played
C18_Witness ==
  /\ navPc = "mounted"
  /\ ~audioLoaded
  /\ navCall.op = "handleTopicSelect"
  /\ selectedTopic = navCall.topic
  /\ \E d \in navData : selectedTopic # {StoredTopics(navData)[1]}
  /\ navToast = "Audio Not Ready"
  /\ playCount = 0
  /\ ~isPlaying

PlaybackRunning ==
  \/ \E n \in apSourceNode : n.state = "playing"
  \/ (~elPaused /\ elState = "ready")

\* C27: while the navigator is mounted and no playSegment call is in flight,
\* isPlaying is true exactly when its AudioProcessor has a playback that was
\* started and not yet stopped, whichever control of the navigator started it.
C27_IsPlayingTracksPlayback ==
  (navPc = "mounted" /\ InFlight(plays) = {}) => (isPlaying <=> PlaybackRunning)

(***************************************************************************)
(* hooks/useLecture.ts: the hook's state, its AudioProcessor and            *)
(* handleFileUpload, one action per stretch between awaits.                 *)
(***************************************************************************)
\* handleFileUpload calls made
MaxLectureCalls == 2

\* the files handed to handleFileUpload
LectureFiles == {f \in Files : f.size = 1}

\* what transcribeAudio and detectTopics resolve with, or the message of the
\* Error they reject with
LectureTranscriptions ==
  { [ok |-> TRUE, value |-> <<Seg(0, 0, 5)>>, message |-> ""],
    [ok |-> FALSE, value |-> <<>>, message |-> "Transcription failed: x"] }

LectureTopics ==
  { [ok |-> TRUE,
     value |-> <<[topic |-> T_Intro, start |-> 0, end |-> 5, description |-> T_D]>>,
     message |-> ""],
    [ok |-> FALSE, value |-> <<>>, message |-> "Topic detection failed: x"] }

LectureCall(id, file, pcv, loadId, steps, failed) ==
  [id |-> id, file |-> file, pc |-> pcv, loadId |-> loadId, steps |-> steps,
   failed |-> failed]

\* the effect of the first render: the AudioProcessor is created and stored
LectureMount ==
  /\ ~lecture.audioProcessor
  /\ lecture' = [lecture EXCEPT !.audioProcessor = TRUE]
  /\ UNCHANGED <<lectureCalls, lectureCount>>
  /\ UNCHANGED <<procVars, audioVars, navVars, fnVars>>

\* handleFileUpload without its file type test
handleFileUpload_NoTypeTest(file) ==
  /\ lectureCount' = lectureCount + 1
  /\ lecture' = [lecture EXCEPT !.isProcessing = TRUE, !.error = {}, !.file = file]
  /\ IF lecture.audioProcessor
     THEN /\ LoadAudio(file)
          /\ lectureCalls' = lectureCalls \cup
               {LectureCall(lectureCount + 1, file, "awaitLoad", apUrls + 1,
                            <<"loadAudio">>, FALSE)}
     ELSE /\ lectureCalls' = lectureCalls \cup
               {LectureCall(lectureCount + 1, file, "awaitTranscribe", 0,
                            <<"transcribeAudio">>, FALSE)}
          /\ UNCHANGED audioVars
  /\ UNCHANGED <<procVars, navVars, fnVars>>

\* handleFileUpload(file) up to its first await, or to its return for a file
\* that is no audio file
handleFileUpload(file) ==
  /\ lectureCount' = lectureCount + 1
  /\ IF ~StartsWith(file.type, AUDIO_SLASH)
     THEN /\ lecture' = [lecture EXCEPT !.error = {"Please upload an audio file"}]
          /\ lectureCalls' = lectureCalls \cup
               {LectureCall(lectureCount + 1, file, "returned", 0, <<>>, FALSE)}
          /\ UNCHANGED audioVars
     ELSE /\ lecture' = [lecture EXCEPT !.isProcessing = TRUE, !.error = {},
                                        !.file = file]
          /\ IF lecture.audioProcessor
             THEN /\ LoadAudio(file)
                  /\ lectureCalls' = lectureCalls \cup
                       {LectureCall(lectureCount + 1, file, "awaitLoad", apUrls + 1,
                                    <<"loadAudio">>, FALSE)}
             ELSE /\ lectureCalls' = lectureCalls \cup
                       {LectureCall(lectureCount + 1, file, "awaitTranscribe", 0,
                                    <<"transcribeAudio">>, FALSE)}
                  /\ UNCHANGED audioVars
  /\ UNCHANGED <<procVars, navVars, fnVars>>

\* the catch and finally blocks of call c, entered with an Error of the given
\* message
LectureFailed(c, message) ==
  /\ lecture' = [lecture EXCEPT !.error = {message}, !.isProcessing = FALSE]
  /\ lectureCalls' = (lectureCalls \ {c}) \cup {[c EXCEPT !.pc = "done", !.failed = TRUE]}

\* `await state.audioProcessor.loadAudio(file)` of call c settles: loadAudio
\* rethrows the Error its audioLoadPromise was rejected with
LectureLoadSettle(c, l) ==
  /\ c \in lectureCalls
  /\ c.pc = "awaitLoad"
  /\ l.id = c.loadId
  /\ LoadSettle(l)
  /\ IF l.promise = "resolved"
     THEN /\ lectureCalls' = (lectureCalls \ {c}) \cup
               {[c EXCEPT !.pc = "awaitTranscribe",
                          !.steps = Append(c.steps, "transcribeAudio")]}
          /\ UNCHANGED lecture
     ELSE LectureFailed(c, "Failed to load audio file")
  /\ UNCHANGED lectureCount
  /\ UNCHANGED <<procVars, navVars, fnVars>>

\* `await transcribeAudio(file)` of call c settles with result
LectureTranscribeSettle(c, result) ==
  /\ c \in lectureCalls
  /\ c.pc = "awaitTranscribe"
  /\ IF result.ok
     THEN /\ lecture' = [lecture EXCEPT !.transcription = result.value]
          /\ lectureCalls' = (lectureCalls \ {c}) \cup
               {[c EXCEPT !.pc = "awaitTopics",
                          !.steps = Append(c.steps, "detectTopics")]}
     ELSE LectureFailed(c, result.message)
  /\ UNCHANGED lectureCount
  /\ UNCHANGED <<procVars, audioVars, navVars, fnVars>>

\* `await detectTopics(transcription)` of call c settles with result; the
\* finally block follows
LectureTopicsSettle(c, result) ==
  /\ c \in lectureCalls
  /\ c.pc = "awaitTopics"
  /\ IF result.ok
     THEN /\ lecture' = [lecture EXCEPT !.topics = result.value, !.isProcessing = FALSE]
          /\ lectureCalls' = (lectureCalls \ {c}) \cup {[c EXCEPT !.pc = "done"]}
     ELSE LectureFailed(c, result.message)
  /\ UNCHANGED lectureCount
  /\ UNCHANGED <<procVars, audioVars, navVars, fnVars>>

\* the steps that settle something a handleFileUpload call waits for
LectureSettles ==
  \/ \E l \in loads : \E ok \in BOOLEAN : DecodeDone(l, ok) /\ UNCHANGED nonAudioVars
  \/ ElementCanPlay /\ UNCHANGED nonAudioVars
  \/ ElementError /\ UNCHANGED nonAudioVars
  \/ \E c \in lectureCalls : \E l \in loads : LectureLoadSettle(c, l)
  \/ \E c \in lectureCalls : \E result \in LectureTranscriptions :
       LectureTranscribeSettle(c, result)
  \/ \E c \in lectureCalls : \E result \in LectureTopics : LectureTopicsSettle(c, result)

NextLecture ==
  \/ LectureMount
  \/ \E file \in LectureFiles : lectureCount < MaxLectureCalls /\ handleFileUpload(file)
  \/ LectureSettles

SpecLecture == Init /\ [][NextLecture]_vars

\* decoding, the media element's events and the two requests (which time out)
\* all come to an end, and a continuation that can run does run
SpecLectureLive == SpecLecture /\ WF_vars(LectureSettles)

(***************************************************************************)
(* Properties of useLecture.handleFileUpload (SpecLectureLive).            *)
(***************************************************************************)
\* the record of call id
CallOf(id) == {c \in lectureCalls : c.id = id}
LectureCalled == lectureCount' = lectureCount + 1
NewLectureCall == CHOOSE c \in lectureCalls' : c.id = lectureCount'
\* call id settles in this step
LectureSettled(id) ==
  /\ \E c \in CallOf(id) : c.pc \in {"awaitLoad", "awaitTranscribe", "awaitTopics"}
  /\ \E c \in lectureCalls' : c.id = id /\ c.pc = "done"

\* C19: a handleFileUpload call with a file whose type does not start with
\* 'audio/' only sets error: isProcessing stays as it is and nothing is
\* requested.  A call with any other file sets isProcessing to true at once and
\* to false when it settles, and it does settle; a failure of loadAudio,
\* transcribeAudio or detectTopics sets error and ends the call with the later
\* steps left out.
C19_UploadAlwaysSettles ==
  /\ [][ LectureCalled =>
           IF StartsWith(NewLectureCall.file.type, AUDIO_SLASH)
           THEN /\ lecture'.isProcessing
                /\ NewLectureCall.pc \in {"awaitLoad", "awaitTranscribe"}
           ELSE /\ lecture' = [lecture EXCEPT !.error = {"Please upload an audio file"}]
                /\ NewLectureCall.pc = "returned"
                /\ NewLectureCall.steps = <<>>
                /\ UNCHANGED audioVars ]_vars
  /\ [][ \A id \in 1..MaxLectureCalls :
           /\ LectureSettled(id) =>
                /\ ~lecture'.isProcessing
                /\ \E c \in CallOf(id) : \E d \in lectureCalls' :
                     /\ d.id = id
                     /\ d.steps = c.steps
                     /\ d.failed => lecture'.error # {}
                     /\ ~d.failed => c.pc = "awaitTopics" /\ lecture'.error = lecture.error
           /\ \A c \in CallOf(id) : c.pc \in {"done", "returned"} =>
                c \in lectureCalls' ]_vars
  /\ \A id \in 1..MaxLectureCalls :
       (\E c \in CallOf(id) : c.pc \notin {"done", "returned"})
         ~> (~lecture.isProcessing /\ \E c \in CallOf(id) : c.pc = "done")

\* one call failed in loadAudio and so made no request, another got through
\* all three steps, and isProcessing is false again
C19_Witness ==
  /\ ~lecture.isProcessing
  /\ \E c \in lectureCalls : c.pc = "done" /\ c.failed /\ c.steps = <<"loadAudio">>
  /\ \E c \in lectureCalls :
       /\ c.pc = "done"
       /\ ~c.failed
       /\ c.steps = <<"loadAudio", "transcribeAudio", "detectTopics">>

(***************************************************************************)
(* Helper functions called on their own: each action is one call, with its *)
(* argument drawn from a bounded set, and records what the call returned.  *)
(***************************************************************************)
\* longest list of topics handed to categorizeTopics
MaxTopics == 3

T_UpperIntro == <<"I", "N", "T", "R", "O">>

\* titles: empty, starting with a space, one word, several words, and the same
\* first word in different cases
Titles == { <<>>, T_Lead, T_IntroA, T_IntroB, T_UpperIntro, T_Body }

\* a stored Topic with the given position and title
TopicAt(i, title) ==
  [id |-> ToString(i - 1), title |-> title, description |-> T_D, start |-> 0, end |-> 0,
   segments |-> <<>>]

TopicLists ==
  UNION { { [i \in 1..n |-> TopicAt(i, f[i])] : f \in [1..n -> Titles] } : n \in 0..MaxTopics }

CallCategorizeTopics(tps) ==
  /\ fnCall' = [fn |-> "categorizeTopics", input |-> tps, output |-> categorizeTopics(tps)]
  /\ UNCHANGED <<procVars, audioVars, navVars, lectVars>>

\* largest file size and chunk size handed to chunkAudioFile, in bytes
MaxFileSize == 7
MaxChunkSize == 3

\* Math.ceil(a / b) for a >= 0 and b > 0
Ceil(a, b) == (a + b - 1) \div b

\* chunkAudioFile with Math.floor for Math.ceil
chunkAudioFile_Floor(size, chunkSize) ==
  LET totalChunks == size \div chunkSize
  IN  [k \in 1..totalChunks |->
         LET i == k - 1
             start == i * chunkSize
             end == Min(start + chunkSize, size)
         IN  [part |-> i + 1, start |-> start, end |-> end, size |-> end - start]]

\* chunkAudioFile(file, chunkSize) for a file of the given size: the chunks in
\* order, each with the bytes [start, end) it was sliced from and its own size;
\* its name ends in `.part${i + 1}`
chunkAudioFile(size, chunkSize) ==
  LET totalChunks == Ceil(size, chunkSize)
  IN  [k \in 1..totalChunks |->
         LET i == k - 1
             start == i * chunkSize
             end == Min(start + chunkSize, size)
         IN  [part |-> i + 1, start |-> start, end |-> end, size |-> end - start]]

CallChunkAudioFile(size, chunkSize) ==
  /\ fnCall' = [fn |-> "chunkAudioFile", input |-> [size |-> size, chunkSize |-> chunkSize],
                output |-> chunkAudioFile(size, chunkSize)]
  /\ UNCHANGED <<procVars, audioVars, navVars, lectVars>>

\* most chunks a transcribed file is cut into
MaxChunks == 3

CHUNK_SIZE == 26214400

\* sizes of the files handed to transcribeAudio: one that is not split, and
\* files of 2 to MaxChunks chunks
TranscribeSizes == {CHUNK_SIZE} \cup {k * CHUNK_SIZE + 1 : k \in 1..(MaxChunks - 1)}

TextSegment(s, e, text) == [start |-> s, end |-> e, text |-> text]

\* what one transcription request comes back with: an error, or a response
\* whose segments have times relative to the start of what was sent
ChunkResponses ==
  { [ok |-> FALSE, segments |-> <<>>],
    [ok |-> TRUE, segments |-> <<>>],
    [ok |-> TRUE, segments |-> <<TextSegment(0, 2, "a")>>],
    [ok |-> TRUE, segments |-> <<TextSegment(0, 1, "b"), TextSegment(1, 3, "c")>>] }

\* segments.map(segment => ({start: segment.start + timeOffset, ...}))
ShiftSegments(segs, timeOffset) ==
  [k \in 1..Len(segs) |->
     TextSegment(segs[k].start + timeOffset, segs[k].end + timeOffset, segs[k].text)]

\* what transcribeAudio settles with: the segments it resolves with, or the
\* chunk (0 for a file sent whole) whose processing made it reject; requests:
\* how many requests it made
TranscribeResult(ok, segs, failedChunk, requests) ==
  [ok |-> ok, segments |-> segs, failedChunk |-> failedChunk, requests |-> requests]

\* the loop over the chunks from chunk i on; responses[i] answers the request
\* for chunk i.  Reading `.end` of the last element of an empty allSegments
\* throws inside the chunk's try
RECURSIVE TranscribeChunks(_, _, _, _)
TranscribeChunks(responses, i, allSegments, timeOffset) ==
  IF i > Len(responses)
  THEN TranscribeResult(TRUE, allSegments, 0, Len(responses))
  ELSE IF ~responses[i].ok
  THEN TranscribeResult(FALSE, <<>>, i, i)
  ELSE LET all == allSegments \o ShiftSegments(responses[i].segments, timeOffset)
       IN  IF all = <<>>
           THEN TranscribeResult(FALSE, <<>>, i, i)
           ELSE TranscribeChunks(responses, i + 1, all, all[Len(all)].end)

\* transcribeAudio(audioFile) for a file of the given size
transcribeAudio(size, responses) ==
  IF size > CHUNK_SIZE
  THEN TranscribeChunks(responses, 1, <<>>, 0)
  ELSE IF responses[1].ok
  THEN TranscribeResult(TRUE, ShiftSegments(responses[1].segments, 0), 0, 1)
  ELSE TranscribeResult(FALSE, <<>>, 0, 1)

\* the requests transcribeAudio makes for a file of the given size
RequestsFor(size) ==
  IF size > CHUNK_SIZE THEN Len(chunkAudioFile(size, CHUNK_SIZE)) ELSE 1

CallTranscribeAudio(size, responses) ==
  /\ fnCall' = [fn |-> "transcribeAudio", input |-> [size |-> size, responses |-> responses],
                output |-> transcribeAudio(size, responses)]
  /\ UNCHANGED <<procVars, audioVars, navVars, lectVars>>

NextFn ==
  \/ \E tps \in TopicLists : CallCategorizeTopics(tps)
  \/ \E size \in TranscribeSizes :
       \E responses \in [1..RequestsFor(size) -> ChunkResponses] :
         CallTranscribeAudio(size, responses)
  \/ \E size \in 0..MaxFileSize : \E chunkSize \in 1..MaxChunkSize :
       CallChunkAudioFile(size, chunkSize)

SpecFn == Init /\ [][NextFn]_vars

\* the lower-cased first space-separated word of a title, 'general' for none
ExpectedCategory(title) ==
  IF title = <<>> \/ title[1] = " " THEN GENERAL
  ELSE LET n == CHOOSE k \in 1..Len(title) :
                  /\ \A i \in 1..k : title[i] # " "
                  /\ (k = Len(title) \/ title[k + 1] = " ")
       IN  ToLowerCase(SubSeq(title, 1, n))

\* where the topic at position i of the input is found in the output
PlacesOf(i, input, output) ==
  {p \in (1..Len(output)) \X (1..Len(input)) :
     /\ p[2] <= Len(output[p[1]].topics)
     /\ output[p[1]].topics[p[2]] = input[i]}

\* C13: categorizeTopics partitions its input: every topic of the input is in
\* exactly one category and every topic of a category is from the input; the key
\* of a category is the lower-cased first space-separated word of the title of each
\* of its topics, or 'general' for an empty title or one that starts with a space;
\* keys are distinct; categories are in the order of their first topic in the
\* input, and the topics of a category are in input order.
C13_CategorizePartitions ==
  fnCall.fn = "categorizeTopics" =>
    LET input == fnCall.input
        output == fnCall.output
        Pos(t) == CHOOSE i \in 1..Len(input) : input[i] = t
    IN  /\ \A i \in 1..Len(input) : Cardinality(PlacesOf(i, input, output)) = 1
        /\ \A c \in 1..Len(output) :
             /\ Len(output[c].topics) > 0
             /\ \A k \in 1..Len(output[c].topics) :
                  /\ output[c].topics[k] \in Elements(input)
                  /\ output[c].category = ExpectedCategory(output[c].topics[k].title)
             /\ \A k \in 1..Len(output[c].topics) : \A m \in 1..Len(output[c].topics) :
                  k < m => Pos(output[c].topics[k]) < Pos(output[c].topics[m])
        /\ \A c \in 1..Len(output) : \A d \in 1..Len(output) :
             c < d => /\ output[c].category # output[d].category
                      /\ Pos(output[c].topics[1]) < Pos(output[d].topics[1])

\* 'Intro a', ' lead', 'intro b': two categories, the first with two topics
C13_Witness ==
  /\ fnCall.fn = "categorizeTopics"
  /\ Len(fnCall.input) = 3
  /\ fnCall.input[1].title = T_IntroA
  /\ fnCall.input[2].title = T_Lead
  /\ fnCall.input[3].title = T_IntroB
  /\ Len(fnCall.output) = 2
  /\ fnCall.output[1].category = <<"i", "n", "t", "r", "o">>
  /\ Len(fnCall.output[1].topics) = 2
  /\ fnCall.output[2].category = GENERAL
RECURSIVE SumSizes(_)
SumSizes(chunks) ==
  IF chunks = <<>> THEN 0 ELSE Head(chunks).size + SumSizes(Tail(chunks))

\* C20: chunkAudioFile(file, chunkSize) returns ceil(file.size / chunkSize)
\* chunks, the least number of chunks of chunkSize bytes that hold the file;
\* chunk i (from 0) covers the bytes [i*chunkSize, min((i+1)*chunkSize, file.size)),
\* so the chunks follow one another from byte 0 to the end of the file without
\* gap or overlap; each holds 1 to chunkSize bytes and the sizes add up to
\* file.size.
C20_ChunksPartitionFile ==
  fnCall.fn = "chunkAudioFile" =>
    LET size == fnCall.input.size
        chunkSize == fnCall.input.chunkSize
        chunks == fnCall.output
        n == Len(chunks)
    IN  /\ n * chunkSize >= size
        /\ n > 0 => (n - 1) * chunkSize < size
        /\ \A k \in 1..n :
             /\ chunks[k].start = (k - 1) * chunkSize
             /\ chunks[k].end = IF k * chunkSize < size THEN k * chunkSize ELSE size
             /\ chunks[k].size = chunks[k].end - chunks[k].start
             /\ chunks[k].size \in 1..chunkSize
             /\ k = 1 => chunks[k].start = 0
             /\ k > 1 => chunks[k].start = chunks[k - 1].end
             /\ k = n => chunks[k].end = size
        /\ SumSizes(chunks) = size

\* a file cut into three chunks, the last one shorter than chunkSize
C20_Witness ==
  /\ fnCall.fn = "chunkAudioFile"
  /\ Len(fnCall.output) = 3
  /\ fnCall.output[3].size < fnCall.input.chunkSize
  /\ fnCall.output[3].end = fnCall.input.size
\* the segments of the first k chunks with times relative to the whole file:
\* each chunk's segments shifted by the end of the last segment before them
RECURSIVE Accumulated(_, _)
Accumulated(responses, k) ==
  IF k = 0 THEN <<>>
  ELSE LET earlier == Accumulated(responses, k - 1)
           shift == IF earlier = <<>> THEN 0 ELSE earlier[Len(earlier)].end
       IN  earlier \o ShiftSegments(responses[k].segments, shift)

\* C21: for a file over 25 MB whose chunk requests all succeed, transcribeAudio
\* makes one request per chunk and resolves with the chunks' segments in chunk
\* order, each chunk's segments shifted by the end time of the last segment
\* accumulated before it; this holds also when a chunk comes back with no
\* segments.
C21_ChunkTimestampsShifted ==
  (/\ fnCall.fn = "transcribeAudio"
   /\ fnCall.input.size > CHUNK_SIZE
   /\ \A k \in DOMAIN fnCall.input.responses : fnCall.input.responses[k].ok) =>
    /\ fnCall.output.ok
    /\ fnCall.output.requests = Len(fnCall.input.responses)
    /\ fnCall.output.segments =
         Accumulated(fnCall.input.responses, Len(fnCall.input.responses))
====
